---- MODULE Spec2Model ----
(***************************************************************************)
(* Model of the chat orchestration core of chat_django/chat:               *)
(*   - chatbot.py   ChatProcessor.process_message, the planning loop that  *)
(*                  views.py ChatMessageView.post.event_stream wraps;      *)
(*   - processor.py ChatProcessor.process_message with agents.py           *)
(*                  UserFacingAgent.stream_response, the second            *)
(*                  implementation of the same loop;                       *)
(*   - the tool adapters' search limit and process_request envelopes.      *)
(* Each action is one stretch of code between two suspension points        *)
(* (yield / await) of the async generators.                                *)
(***************************************************************************)
EXTENDS Integers, Sequences, FiniteSets, TLC

(* ---------------- bounds of the exploration ---------------------------- *)
\* largest configured PLANNING_LOOP_MAX explored (0..MaxLoopsCfg)
MaxLoopsCfg == 3
\* largest number of records a search returns to the planning loop
MaxSeqs == 1
\* largest number of chunks the response generation produces
MaxChunks == 2
\* largest number of rows of the sequence table that match a search
MaxRows == 12

(* ---------------- planning output: a line of whitespace-separated words - *)
\* a bare word of the planning output (no ':' in it)
W(v) == [key |-> "", val |-> v]
\* a key:"value" word of the planning output
KV(k, v) == [key |-> k, val |-> v]

SENTINEL == "PLAN_COMPLETE=True"

P_done == <<W(SENTINEL)>>
P_rna == <<W("GET_TRNA"), KV("Isotype_from_Anticodon", "Ala"), KV("colour", "red"),
           KV("General_tRNA_Model_Score_min", "60.5"), KV("order", "DESC"), KV("limit", "50")>>
P_rna_badnum == <<W("GET_TRNA"), KV("limit", "abc")>>
P_rna_done == <<W("GET_TRNA"), KV("limit", "50"), W(SENTINEL)>>
P_crap == <<W("CRAP"), KV("chrom", "chr1"), KV("start", "100")>>
P_crap_done == <<W("CRAP"), KV("note", SENTINEL)>>
P_junk == <<W("thinking"), W("aloud")>>
P_empty == <<>>

PlanOutputs ==
  {P_done, P_rna, P_rna_badnum, P_rna_done, P_crap, P_crap_done, P_junk, P_empty}

\* "PLAN_COMPLETE=True" in plan_response
HasSentinel(plan) == \E i \in 1..Len(plan) : plan[i].val = SENTINEL

\* plan_response.startswith(name)
StartsWith(plan, name) == Len(plan) > 0 /\ plan[1].key = "" /\ plan[1].val = name

\* if plan_response:
Truthy(plan) == Len(plan) > 0

\* values that int() accepts
IsInt(v) == v \in {"50", "0", "-1", "5"}
\* values that float() accepts
IsFloat(v) == IsInt(v) \/ v \in {"60.5"}
\* value.lower()
Lower(v) == CASE v = "DESC" -> "desc" [] v = "ASC" -> "asc" [] v = "RANDOM" -> "random" [] OTHER -> v

FloatKeys == {"General_tRNA_Model_Score_min", "General_tRNA_Model_Score_max",
              "Isotype_Model_Score_min", "Isotype_Model_Score_max"}
IntKeys == {"limit"}
LowerKeys == {"order", "sample"}
PlainKeys == {"Isotype_from_Anticodon", "Anticodon", "species", "json_field", "json_value", "sort_by"}
GetTrnaKeys == PlainKeys \cup FloatKeys \cup IntKeys \cup LowerKeys

\* the params key a GET_TRNA directive key is stored under
ParamName(k) ==
  CASE k = "Isotype_from_Anticodon" -> "isotype"
    [] k = "Anticodon" -> "anticodon"
    [] k = "General_tRNA_Model_Score_min" -> "min_general_score"
    [] k = "General_tRNA_Model_Score_max" -> "max_general_score"
    [] k = "Isotype_Model_Score_min" -> "min_isotype_score"
    [] k = "Isotype_Model_Score_max" -> "max_isotype_score"
    [] OTHER -> k

\* indices of the words parts[1:] that contain ':'
KvIdx(plan) == {i \in 2..Len(plan) : plan[i].key # ""}

\* float(value) / int(value) raises ValueError on some word of a GET_TRNA line
GetTrnaParseRaises(plan) ==
  \E i \in KvIdx(plan) :
     \/ plan[i].key \in FloatKeys /\ ~IsFloat(plan[i].val)
     \/ plan[i].key \in IntKeys /\ ~IsInt(plan[i].val)

LastIdx(S) == CHOOSE i \in S : \A j \in S : j <= i

\* params built by the GET_TRNA branch: recognised keys only, later words win
GetTrnaParams(plan) ==
  LET idx == {i \in KvIdx(plan) : plan[i].key \in GetTrnaKeys}
      names == {ParamName(plan[i].key) : i \in idx}
      valOf(i) == IF plan[i].key \in LowerKeys THEN Lower(plan[i].val) ELSE plan[i].val
  IN [n \in names |-> valOf(LastIdx({i \in idx : ParamName(plan[i].key) = n}))]

\* params built by the CRAP branch: every key:value word
CrapParams(plan) ==
  LET names == {plan[i].key : i \in KvIdx(plan)}
  IN [n \in names |-> plan[LastIdx({i \in KvIdx(plan) : plan[i].key = n})].val]

(* ---------------- outbound events --------------------------------------- *)
\* one JSON event: its type, the key its payload is stored under, whether it
\* carries a timestamp, and the generator that yielded it
Ev(t, k, ts, src) == [type |-> t, key |-> k, ts |-> ts, src |-> src]

\* views.py event_stream: the start event and the closing end event
ViewStartEvent == Ev("start", "chat", TRUE, "view")
ViewEndEvent == Ev("end", "none", TRUE, "view")
\* chatbot.py process_message
StartResponseEvent == Ev("start_response", "none", TRUE, "core")
TokenEvent == Ev("token", "content", TRUE, "core")
EndEvent == Ev("end", "none", TRUE, "core")
ToolStartEvent == Ev("tool_start", "content", TRUE, "core")
ToolProgressEvent == Ev("tool_progress", "content", TRUE, "core")
SequenceDataEvent == Ev("sequence_data", "data", FALSE, "core")
ToolErrorEvent == Ev("error", "message", FALSE, "core")
FatalErrorEvent == Ev("error", "error", TRUE, "core")

\* processor.py process_message ("core") and _execute_rna_tool ("tool")
P_StartEvent == Ev("start", "chat", TRUE, "core")
P_ToolStartEvent == Ev("tool_start", "content", TRUE, "tool")
P_SequenceDataEvent == Ev("sequence_data", "data", TRUE, "tool")
P_ToolResultEvent == Ev("tool_result", "data", TRUE, "tool")
P_ToolErrorEvent == Ev("error", "content", TRUE, "tool")
P_FatalErrorEvent == Ev("error", "content", TRUE, "core")
\* agents.py UserFacingAgent.stream_response
A_StartResponseEvent == Ev("start_response", "none", TRUE, "agent")
A_TokenEvent == Ev("token", "content", TRUE, "agent")
A_EndResponseEvent == Ev("end_response", "none", TRUE, "agent")
A_ErrorEvent == Ev("error", "content", TRUE, "agent")

\* n copies of event e
RECURSIVE Repeat(_, _)
Repeat(e, n) == IF n = 0 THEN <<>> ELSE <<e>> \o Repeat(e, n - 1)

(* ---------------- payloads ---------------------------------------------- *)
\* names of the records a search returns, by tool call number and row
RowNames ==
  << <<"r1a", "r1b", "r1c", "r1d">>, <<"r2a", "r2b", "r2c", "r2d">>,
     <<"r3a", "r3b", "r3c", "r3d">>, <<"r4a", "r4b", "r4c", "r4d">>,
     <<"r5a", "r5b", "r5c", "r5d">>, <<"r6a", "r6b", "r6c", "r6d">> >>
Rows(call, n) == SubSeq(RowNames[call], 1, n)
\* name of the region payload a genome-browser call returns
RegionNames == <<"g1", "g2", "g3", "g4", "g5", "g6">>

\* text fragments of the response generation
Fragments == {<<"a">>, <<"b", "c">>}

\* ''.join(full_response)
RECURSIVE Join(_)
Join(frags) == IF frags = <<>> THEN <<>> ELSE Head(frags) \o Join(Tail(frags))

UserMsg == [role |-> "user", content |-> <<"h", "i">>]
OldPair == <<[role |-> "user", content |-> <<"q">>], [role |-> "assistant", content |-> <<"a">>]>>

\* history[-message_limit:] in chronological order
Recent(h, limit) == IF Len(h) <= limit THEN h ELSE SubSeq(h, Len(h) - limit + 1, Len(h))
HISTORY_WINDOW == 6

\* last_plan_response: None, or the text of the previous planning output
NoPlan == [some |-> FALSE, text |-> <<>>]
SomePlan(p) == [some |-> TRUE, text |-> p]

NoResult == [status |-> "unbound", tool |-> "none", seqs |-> <<>>]
NoSummary == [tool |-> "none", items |-> <<>>]

(* ---------------- tool adapters: requests and replies -------------------- *)
\* mcp_server.py _handle_search_rna: MAX_RESULTS and DEFAULT_LIMIT
MAX_RESULTS == 10
DEFAULT_LIMIT == 5
\* mcp.py _handle_search: " LIMIT 10"; server.py search_rna: limit = 10
MCP_DEFAULT_LIMIT == 10
SERVER_DEFAULT_LIMIT == 10

Min(a, b) == IF a <= b THEN a ELSE b

\* the limit of a request: absent, not an integer, or the integer n
NoLimit == [given |-> FALSE, ok |-> FALSE, n |-> 0]
BadLimit == [given |-> TRUE, ok |-> FALSE, n |-> 0]
Lim(n) == [given |-> TRUE, ok |-> TRUE, n |-> n]
LimitValues == {-1, 0, 3, 10, 11, 50}
ReqLimits == {NoLimit, BadLimit} \cup {Lim(n) : n \in LimitValues}
\* row at which Sequence.objects.acreate raises (0: never)
MaxFailAt == 2

\* mcp.py self.valid_species; the tables of the tRNA database
ValidSpecies == {"human", "yeast", "mouse"}
\* species values of a request ("rat" has no table)
SpeciesValues == {"human", "rat"}

\* rows: the rows of the table the query reads that match its filters
Call(kind, adapter, method, ctx, has_param, backend, limit, rows, fail_at, species) ==
  [kind |-> kind, adapter |-> adapter, method |-> method, ctx |-> ctx,
   has_param |-> has_param, backend |-> backend, limit |-> limit,
   rows |-> rows, fail_at |-> fail_at, species |-> species]
NoCall == Call("none", "none", "none", "absent", FALSE, "ok", NoLimit, 0, 0, "human")

\* a reply: status success / error (a failure result) / raised (an exception
\* leaves the adapter), the error code, the number of records returned and
\* the number of Sequence rows created
Reply(status, code, count, stored) ==
  [status |-> status, code |-> code, count |-> count, stored |-> stored]
NoReply == Reply("none", "", 0, 0)

SearchAdapters == {"mcp", "mcp_server", "server"}
SearchCalls ==
  {Call("search", a, "search_rna", "dict", TRUE, b, l, m, k, sp) :
     a \in SearchAdapters, b \in {"ok", "raises"}, l \in ReqLimits,
     m \in 0..MaxRows, k \in 0..MaxFailAt, sp \in SpeciesValues}

EnvelopeAdapters == {"mcp", "crap", "stdio"}
Methods == {"get_capabilities", "search_rna", "get_sequence", "process_stdio",
            "view_region", "bogus"}
EnvelopeCalls ==
  {Call("envelope", a, mt, cx, hp, b, NoLimit, 2, k, "human") :
     a \in EnvelopeAdapters, mt \in Methods, cx \in {"absent", "dict", "none"},
     hp \in BOOLEAN, b \in {"ok", "raises", "not_found"}, k \in 0..1}

\* rows a SELECT ... LIMIT L returns when m rows match (SQLite: a negative
\* LIMIT is no limit)
SqlLimit(m, L) == IF L < 0 THEN m ELSE Min(m, L)

\* cursor.execute on SELECT * FROM <table> raises when there is no such table
TableExists(table) == table \in ValidSpecies

\* if species not in self.valid_species: species = 'human' (mcp.py and
\* mcp_server.py alike)
SpeciesOrHuman(sp) == IF sp \in ValidSpecies THEN sp ELSE "human"

\* the LIMIT clause of mcp.py _handle_search
McpLimit(c) == IF c.limit.given THEN c.limit.n ELSE MCP_DEFAULT_LIMIT

\* mcp.py RNADatabaseMCP._handle_search
McpHandleSearch(c) ==
  IF c.limit.given /\ ~c.limit.ok THEN Reply("error", "SEARCH_ERROR", 0, 0)
  ELSE IF c.backend = "raises" \/ ~TableExists(SpeciesOrHuman(c.species))
    THEN Reply("error", "SEARCH_ERROR", 0, 0)
  ELSE LET r == SqlLimit(c.rows, McpLimit(c))
       IN IF c.fail_at \in 1..r
            THEN Reply("error", "SEARCH_ERROR", 0, c.fail_at - 1)
            ELSE Reply("success", "", r, r)

\* final_limit of mcp_server.py _handle_search_rna
McpServerLimit(c) ==
  LET requested_limit == IF c.limit.given /\ c.limit.ok THEN c.limit.n ELSE DEFAULT_LIMIT
  IN Min(requested_limit, MAX_RESULTS)

\* mcp_server.py RNADatabaseServer._handle_search_rna under call_tool: the
\* first row processed reads the undefined name total_rows
McpServerHandleSearchRna(c) ==
  IF c.backend = "raises" \/ ~TableExists(SpeciesOrHuman(c.species))
    THEN Reply("raised", "DATABASE_ERROR", 0, 0)
  ELSE LET r == SqlLimit(c.rows, McpServerLimit(c))
       IN IF r = 0 THEN Reply("success", "", 0, 0)
                   ELSE Reply("raised", "NameError", 0, 0)

\* server.py RNADatabaseServer search_rna
ServerSearchRna(c) ==
  IF c.limit.given /\ ~c.limit.ok THEN Reply("raised", "ValueError", 0, 0)
  ELSE IF c.backend = "raises" \/ ~TableExists(c.species)
    THEN Reply("raised", "sqlite3.Error", 0, 0)
  ELSE LET r == SqlLimit(c.rows, IF c.limit.given THEN c.limit.n ELSE SERVER_DEFAULT_LIMIT)
       IN IF c.fail_at \in 1..r
            THEN Reply("raised", "Exception", 0, c.fail_at - 1)
            ELSE Reply("success", "", r, r)

\* mcp.py RNADatabaseMCP._handle_get_sequence
McpHandleGetSequence(c) ==
  IF ~c.has_param THEN Reply("error", "MISSING_PARAM", 0, 0)
  ELSE IF c.backend = "raises" THEN Reply("error", "GET_SEQUENCE_ERROR", 0, 0)
  ELSE IF c.backend = "not_found" THEN Reply("error", "NOT_FOUND", 0, 0)
  ELSE IF c.fail_at = 1 THEN Reply("error", "GET_SEQUENCE_ERROR", 0, 0)
  ELSE Reply("success", "", 1, 1)

\* mcp.py RNADatabaseMCP.process_request; context.update(...) runs before
\* the try block
McpProcessRequest(c) ==
  IF c.ctx = "none" THEN Reply("raised", "TypeError", 0, 0)
  ELSE CASE c.method = "get_capabilities" -> Reply("success", "", 0, 0)
         [] c.method = "search_rna" -> McpHandleSearch(c)
         [] c.method = "get_sequence" -> McpHandleGetSequence(c)
         [] OTHER -> Reply("error", "INVALID_METHOD", 0, 0)

\* crap_mcp.py CrapMCP.process_request: the method is not looked at, every
\* exception becomes a failure whose error holds a message only
CrapProcessRequest(c) ==
  IF c.backend = "ok" THEN Reply("success", "", 1, 0)
                      ELSE Reply("error", "", 0, 0)

\* stdio_processor/mcp.py StdioMCP.process_request
StdioProcessRequest(c) ==
  CASE c.method = "get_capabilities" -> Reply("success", "", 0, 0)
    [] c.method = "process_stdio" ->
         IF c.backend = "raises" THEN Reply("error", "INTERNAL_ERROR", 0, 0)
         ELSE IF ~c.has_param THEN Reply("error", "MISSING_PARAM", 0, 0)
         ELSE Reply("success", "", 0, 0)
    [] OTHER -> Reply("error", "INVALID_METHOD", 0, 0)

\* the search of each implementation
SearchOf(c) ==
  CASE c.adapter = "mcp" -> McpHandleSearch(c)
    [] c.adapter = "mcp_server" -> McpServerHandleSearchRna(c)
    [] OTHER -> ServerSearchRna(c)

\* process_request of each adapter
ProcessRequestOf(c) ==
  CASE c.adapter = "mcp" -> McpProcessRequest(c)
    [] c.adapter = "crap" -> CrapProcessRequest(c)
    [] OTHER -> StdioProcessRequest(c)

(* ======================= cache.py + tool_wrappers.py ==================== *)
\* largest number of requests sent to the wrapped tools
MaxRequests == 2
\* last second of the clock of the cache
MaxTime == 2
\* largest number of direct cache.set calls
MaxSets == 2

\* one key: value item of request.params, and a request
Item(k, v) == [key |-> k, val |-> v]
Req(m, items) == [method |-> m, params |-> items]

\* three requests: ReqA and ReqA2 hold the same params dict, built in a
\* different insertion order
ReqA == Req("search_rna", <<Item("isotype", "Ala"), Item("limit", "5")>>)
ReqA2 == Req("search_rna", <<Item("limit", "5"), Item("isotype", "Ala")>>)
ReqB == Req("search_rna", <<Item("isotype", "Gly")>>)
Requests == {ReqA, ReqA2, ReqB}

\* hash(f'{request.method}:{request.params}'): the text renders the items in
\* insertion order, so ReqA and ReqA2 hash differently
Hash(r) == CASE r = ReqA -> 101 [] r = ReqA2 -> 102 [] OTHER -> 103

\* the classes of the tools that get wrapped
ToolClasses == {"RNADatabaseMCP", "CrapMCP"}

\* arguments of wrap_tool (enable_caching is True throughout)
CacheTtls == {0, 2}
WrapArgs == [monitoring : BOOLEAN, cache_ttl : CacheTtls]

\* self.tool.__class__.__name__ as CachedTool sees it: wrap_tool hands it the
\* MonitoredTool when monitoring is enabled
WrappedClass(t, w) == IF w.monitoring THEN "MonitoredTool" ELSE t

\* cache_key of CachedTool.process_request
CacheKey(cls, r) == [cls |-> cls, hash |-> Hash(r)]
CacheKeys == [cls : ToolClasses \cup {"MonitoredTool", "app"}, hash : {Hash(r) : r \in Requests}]
\* a key used by direct callers of cache.set and cache.get
AppKey == [cls |-> "app", hash |-> Hash(ReqA)]

\* an MCPResponse object: status, error code, and which invocation of which
\* tool produced it
Response(status, code, tool, serial) ==
  [kind |-> "object", status |-> status, code |-> code, tool |-> tool, serial |-> serial]
\* None
NoValue == [kind |-> "none", status |-> "", code |-> "", tool |-> "", serial |-> 0]

\* other values handed to cache.set: a dict of strings, a tuple, a bytes
\* object
Value(kind, name) == [kind |-> kind, status |-> "", code |-> name, tool |-> "", serial |-> 0]
DirectValues ==
  {Value("json", "d1"), Value("json", "d2"), Value("tuple", "t1"), Value("bytes", "b1"),
   Response("success", "", "RNADatabaseMCP", 1)}

\* json.dumps(value) succeeds
JsonSerialisable(v) == v.kind \in {"json", "tuple", "list"}

\* json.loads(json.dumps(value)): a tuple comes back as a list
JsonRoundTrip(v) == IF v.kind = "tuple" THEN [v EXCEPT !.kind = "list"] ELSE v

\* one slot of the cache: how the value is kept, when it was set, its expiry
Entry(form, v, at, ttl) == [form |-> form, value |-> v, at |-> at, ttl |-> ttl]
NoEntry == Entry("absent", NoValue, 0, 0)
EmptyStore == [k \in CacheKeys |-> NoEntry]

\* InMemoryCache.set: the JSON text, or, when json.dumps raises TypeError, the
\* except clause names json.JSONEncodeError, which does not exist, and the
\* outer handler stores the original value; expiry is ignored
MemorySet(st, key, v, expiry, t) ==
  [st EXCEPT ![key] = IF JsonSerialisable(v) THEN Entry("json", v, 0, 0)
                                              ELSE Entry("raw", v, 0, 0)]

\* InMemoryCache.get
MemoryGet(st, key, t) ==
  CASE st[key].form = "absent" -> NoValue
    [] st[key].form = "json" -> JsonRoundTrip(st[key].value)
    \* a raw bytes value goes to pickle.loads, which fails: None
    [] st[key].value.kind = "bytes" -> NoValue
    [] OTHER -> st[key].value

\* RedisCache.set: setex / set of the JSON text; when json.dumps raises, the
\* same AttributeError reaches the outer handler, which only logs
RedisSet(st, key, v, expiry, t) ==
  IF JsonSerialisable(v) THEN [st EXCEPT ![key] = Entry("json", v, t, expiry)]
                         ELSE st

\* the Redis server has dropped the key
RedisExpired(e, t) == e.ttl > 0 /\ t >= e.at + e.ttl

\* RedisCache.get
RedisGet(st, key, t) ==
  IF st[key].form = "absent" \/ RedisExpired(st[key], t) THEN NoValue
  ELSE JsonRoundTrip(st[key].value)

CacheImpls == {"memory", "redis"}
CacheSet(c, st, key, v, expiry, t) ==
  IF c = "memory" THEN MemorySet(st, key, v, expiry, t) ELSE RedisSet(st, key, v, expiry, t)
CacheGet(c, st, key, t) ==
  IF c = "memory" THEN MemoryGet(st, key, t) ELSE RedisGet(st, key, t)

\* variant in which a cached value is never used
CachedTruthyNever(v) == FALSE

\* if cached_response:
CachedTruthy(v) == v.kind # "none"

\* variant in which every response is cached
ShouldCacheAlways(resp) == TRUE

\* if response.status == "success":
ShouldCache(resp) == resp.status = "success"

\* ToolMetrics
ZeroMetrics == [total_calls |-> 0, successful_calls |-> 0, failed_calls |-> 0]
RecordSuccess(m) ==
  [m EXCEPT !.total_calls = @ + 1, !.successful_calls = @ + 1]
\* variant that forgets to count the call
RecordErrorUncounted(m) == [m EXCEPT !.failed_calls = @ + 1]

\* ToolMetrics.record_error
RecordError(m) ==
  [m EXCEPT !.total_calls = @ + 1, !.failed_calls = @ + 1]

\* what the underlying tool does with a request
Outcomes == {"success", "error", "raise"}
\* the MCPResponse the underlying tool returns
ToolResponse(t, o, serial) ==
  IF o = "success" THEN Response("success", "", t, serial)
                   ELSE Response("error", "TOOL_ERROR", t, serial)
\* the MCPResponse MonitoredTool builds in its except handler
MonitoredError(t, serial) == Response("error", "MONITORED_TOOL_ERROR", t, serial)

\* variant in which the wrapper returns a response of its own
MonitoredForwardOwn(response) == [response EXCEPT !.code = "MONITORED_TOOL"]

\* MonitoredTool.process_request, line 70: return response
MonitoredForward(response) == response

\* MonitoredTool.process_request: the metrics after the call
MonitoredMetrics(m, o) == IF o = "success" THEN RecordSuccess(m) ELSE RecordError(m)

(* ======================= authentication/tokens.py ======================= *)
\* largest number of refresh tokens issued to the user
MaxIssued == 2

\* the requests that handle the user at the same time
AuthRequests == {"q1", "q2"}

\* the columns of the user's row that the token checks read; jti 0 is None
Row(jti, active) == [jti |-> jti, active |-> active]

\* a User object in memory: the row as it was loaded, the handler that holds
\* it and where the handler stands
Snap(pc_, path, row) == [pc |-> pc_, path |-> path, row |-> row]
NoSnap == Snap("idle", "none", Row(0, TRUE))

\* a signed token of the user; the n-th call of create_tokens gives its
\* tokens the jti n (uuid4 values differ from each other and from None)
Token(type, jti, expired) == [type |-> type, jti |-> jti, expired |-> expired]
TokensUpTo(n) == {Token(ty, j, e) : ty \in {"access", "refresh"}, j \in 1..n, e \in BOOLEAN}

\* the decision of an endpoint on a presented token, with the row it read
Decision(endpoint, tok, ok, row) == [endpoint |-> endpoint, token |-> tok, ok |-> ok, row |-> row]
NoDecision == Decision("none", Token("access", 0, FALSE), FALSE, Row(0, TRUE))

\* variant without the check of the stored jti
VerifyTokenNoJti(tok, token_type, row) ==
  ~tok.expired /\ tok.type = token_type /\ row.active

\* verify_token returns the payload: jwt.decode checks signature and expiry,
\* then the type, the user's is_active and, for a refresh token, the jti
VerifyToken(tok, token_type, row) ==
  /\ ~tok.expired
  /\ tok.type = token_type
  /\ row.active
  /\ token_type = "refresh" => tok.jti = row.jti

\* chat/views.py get_user_from_token returns the user: jwt.decode checks
\* signature and expiry, User.objects.get finds the row
GetUserFromToken(tok, row) == ~tok.expired

\* the sessions that use the wrapped tools at the same time
Sessions == {"s1", "s2"}
\* largest number of invocations of one underlying tool by concurrent sessions
MaxInvocations == 2

\* a session: where its process_request call stands ("idle": no call; 
\* "awaiting": suspended in await self.tool.process_request), the tool and
\* request of the call, the number of the underlying invocation it waits
\* for, and what its last call returned
Session(pc_, t, r, serial, got) ==
  [pc |-> pc_, tool |-> t, req |-> r, serial |-> serial, got |-> got]
IdleSession == Session("idle", "none", Req("none", <<>>), 0, NoValue)

\* one answered request: the tool and request, whether the cache answered,
\* what the underlying tool returned (NoValue when it was not reached or
\* raised), the response (NoValue when the call raised), the time, and
\* total_calls of the tool before and after
Served(t, r, hit, tool_resp, resp, at, before, after) ==
  [tool |-> t, req |-> r, hit |-> hit, tool_resp |-> tool_resp, resp |-> resp, at |-> at,
   calls_before |-> before, calls_after |-> after]

\* the last direct use of the cache: set(key, value, ttl) at time at, and
\* what the get that followed returned
Probe(sets, value, ttl, at, read, read_at, got) ==
  [sets |-> sets, value |-> value, ttl |-> ttl, at |-> at,
   read |-> read, read_at |-> read_at, got |-> got]
NoProbe == Probe(0, NoValue, 0, 0, FALSE, 0, NoValue)

(* ======================= event_manager.py =============================== *)
\* largest number of events one producer pushes
MaxEvents == 2

\* the coroutines that call add_event of the session's EventManager
Producers == {"p1", "p2"}

\* chat ids; the session whose queue is followed is that of SessionChat
ChatIds == {"c1", "c2"}
SessionChat == "c1"

\* the event dict add_event builds from its arguments: the k-th event of
\* producer p (type and data are the producer's; the timestamp is taken in
\* the same step as the put)
EventOf(p, k) == [type |-> "tool_progress", data |-> <<p, k>>, timestamp |-> TRUE]

\* _format_sse_event: "data: " + json.dumps(event) + two newlines
FormatSse(event) == [line |-> "data", json |-> event]

\* variant in which the newest item of the queue is taken
QueueGetNewest(q) == [item |-> q[Len(q)], rest |-> SubSeq(q, 1, Len(q) - 1)]

\* asyncio.Queue.get: the oldest item
QueueGet(q) == [item |-> Head(q), rest |-> Tail(q)]

VARIABLES
  call,               \* the adapter request under test (NoCall in the loop model)
  reply,              \* what the adapter did with it
  impl,               \* which process_message runs: "chatbot" or "processor"
  max_loops,          \* settings.PLANNING_LOOP_MAX
  pc,                 \* position of the generator
  loop_count,         \* loop_count / index of the for loop
  plan_response,      \* plan_response of the current iteration
  last_plan_response, \* last_plan_response (NoPlan for None)
  plan_calls,         \* number of PlanningAgent.get_next_step calls made
  tool_log,           \* the adapter invocations made, in order
  result,             \* the local variable result of process_message
  accumulated_data,   \* accumulated_data
  data_summary,       \* self.data_summary
  events,             \* the outbound stream so far
  full_response,      \* fragments yielded as token events
  chunks,             \* chunks the generation stream has produced
  history,            \* Message rows of the chat, oldest first
  chat_history,       \* user_facing_agent.chat_history
  fatal,              \* the failure that ended the run, "none" if none
  cache_impl,         \* the class of the global cache: "memory" or "redis"
  wrap,               \* arguments of wrap_tool: enable_monitoring, cache_ttl
  store,              \* InMemoryCache._cache / the keys of the Redis server
  now,                \* seconds elapsed on the clock of the cache
  metrics,            \* MonitoredTool.metrics of each wrapped tool
  invoked,            \* process_request calls that reached each underlying tool
  served,             \* the requests the wrapped tools have answered, in order
  probe,              \* the last direct cache.set and the cache.get after it
  sessions,           \* the request each concurrent session has in flight
  finished,           \* invocations of each underlying tool that returned or raised
  queue,              \* EventManager.queue: the formatted events not yet taken
  unfinished,         \* the unfinished-task count of the queue
  pushed,             \* the events given to add_event, in the order of the puts
  observed,           \* what get_events has yielded to its consumer, in order
  todo,               \* events each producer has still to push
  consumer,           \* position of the get_events generator
  registry,           \* the chat ids that are keys of _event_managers
  user_row,           \* the auth_user row of the user: refresh_token_jti, is_active
  issued,             \* number of refresh tokens create_tokens has issued
  revoked,            \* revoke_refresh_token ran after the last create_tokens
  snap,               \* the User object each request in progress holds in memory
  auth_log            \* the last token presented to an endpoint and the decision

concVars == <<sessions, finished>>

cacheVars == <<cache_impl, wrap, store, now, metrics, invoked, served, probe, concVars>>

eventVars == <<queue, unfinished, pushed, observed, todo, consumer, registry>>

authVars == <<user_row, issued, revoked, snap, auth_log>>

\* state of the components that live outside one process_message run
compVars == <<cacheVars, eventVars, authVars>>

\* the cache and the wrappers before any request
CacheIdle ==
  /\ store = EmptyStore
  /\ now = 0
  /\ metrics = [t \in ToolClasses |-> ZeroMetrics]
  /\ invoked = [t \in ToolClasses |-> 0]
  /\ served = <<>>
  /\ probe = NoProbe
  /\ sessions = [s \in Sessions |-> IdleSession]
  /\ finished = [t \in ToolClasses |-> 0]

\* EventManager.__init__, no producer and no consumer running
EventIdle ==
  /\ queue = <<>>
  /\ unfinished = 0
  /\ pushed = <<>>
  /\ observed = <<>>
  /\ todo = [p \in Producers |-> 0]
  /\ consumer = "idle"
  /\ registry = {}

CacheCompIdle ==
  /\ cache_impl = "memory"
  /\ wrap = [monitoring |-> TRUE, cache_ttl |-> 0]
  /\ CacheIdle

\* one active user who has never logged in, no request in progress
AuthIdle ==
  /\ user_row = Row(0, TRUE)
  /\ issued = 0
  /\ revoked = FALSE
  /\ snap = [q \in AuthRequests |-> NoSnap]
  /\ auth_log = NoDecision

CompIdle == CacheCompIdle /\ EventIdle /\ AuthIdle

vars == <<compVars, call, reply, impl, max_loops, pc, loop_count, plan_response, last_plan_response,
          plan_calls, tool_log, result, accumulated_data, data_summary, events,
          full_response, chunks, history, chat_history, fatal>>

\* state of one request before process_message starts
LoopInit ==
  /\ pc = "start"
  /\ loop_count = 0
  /\ plan_response = <<>>
  /\ last_plan_response = NoPlan
  /\ plan_calls = 0
  /\ tool_log = <<>>
  /\ result = NoResult
  /\ accumulated_data = <<>>
  /\ data_summary = NoSummary
  /\ events = <<>>
  /\ full_response = <<>>
  /\ chunks = 0
  /\ chat_history = <<>>
  /\ fatal = "none"

Init ==
  /\ call = NoCall
  /\ reply = NoReply
  /\ impl \in {"chatbot", "processor"}
  /\ max_loops \in 0..MaxLoopsCfg
  /\ history \in {<<UserMsg>>, OldPair \o <<UserMsg>>}
  /\ LoopInit
  /\ CompIdle

\* frame of everything but pc, events and fatal
LoopUnchanged ==
  UNCHANGED <<compVars, call, reply, impl, max_loops, loop_count, plan_response, last_plan_response,
              plan_calls, tool_log, result, accumulated_data, data_summary,
              full_response, chunks, history, chat_history>>

(* ======================= chatbot.py + views.py ========================== *)

\* variant in which the handler falls back into the loop
FatalPcResume == "incr"

\* pc after the except handler of process_message has yielded its event
FatalPc == "returned"

\* except Exception as e: yield the error event; the generator then returns
Fatal(kind) ==
  /\ events' = Append(events, FatalErrorEvent)
  /\ fatal' = kind
  /\ pc' = FatalPc

\* event_stream yields the start event, then iterates process_message
ViewStart ==
  /\ impl = "chatbot" /\ pc = "start"
  /\ events' = Append(events, ViewStartEvent)
  /\ pc' = "begin"
  /\ UNCHANGED fatal
  /\ LoopUnchanged

\* process_message up to the while loop: fetch the recent history
Begin ==
  /\ impl = "chatbot" /\ pc = "begin"
  /\ chat_history' = Recent(history, HISTORY_WINDOW)
  /\ loop_count' = 0
  /\ last_plan_response' = NoPlan
  /\ pc' = "loop"
  /\ UNCHANGED <<compVars, call, reply, impl, max_loops, plan_response, plan_calls, tool_log, result,
                 accumulated_data, data_summary, events, full_response, chunks,
                 history, fatal>>

\* off-by-one variant of the loop test
LoopGuardInclusive(lc, mx) == lc <= mx

\* while loop_count < max_loops
LoopGuard(lc, mx) == lc < mx

\* the while test fails: the generator returns without yielding anything
LoopExit ==
  /\ impl = "chatbot" /\ pc = "loop"
  /\ ~LoopGuard(loop_count, max_loops)
  /\ pc' = "returned"
  /\ UNCHANGED <<events, fatal>>
  /\ LoopUnchanged

\* one planning call: Message.objects.get and get_next_step return
Plan ==
  /\ impl = "chatbot" /\ pc = "loop"
  /\ LoopGuard(loop_count, max_loops)
  /\ \E p \in PlanOutputs :
       /\ plan_response' = p
       /\ plan_calls' = plan_calls + 1
       /\ pc' = "planned"
  /\ UNCHANGED <<compVars, call, reply, impl, max_loops, loop_count, last_plan_response, tool_log,
                 result, accumulated_data, data_summary, events, full_response,
                 chunks, history, chat_history, fatal>>

\* one planning call that raises (upstream outage)
PlanFails ==
  /\ impl = "chatbot" /\ pc = "loop"
  /\ LoopGuard(loop_count, max_loops)
  /\ plan_calls' = plan_calls + 1
  /\ Fatal("planning")
  /\ UNCHANGED <<compVars, call, reply, impl, max_loops, loop_count, plan_response, last_plan_response,
                 tool_log, result, accumulated_data, data_summary,
                 full_response, chunks, history, chat_history>>

\* variant of the exit test without the sentinel
ExitCheckNoSentinel(lc, mx, plan) == lc >= mx - 1

\* variant of the exit test without the last-iteration exit
ExitCheckSentinelOnly(lc, mx, plan) == HasSentinel(plan)

\* variant in which any output that is not a GET_TRNA line ends planning
ExitCheckFailOpen(lc, mx, plan) ==
  lc >= mx - 1 \/ HasSentinel(plan) \/ ~StartsWith(plan, "GET_TRNA")

\* if loop_count >= max_loops - 1 or "PLAN_COMPLETE=True" in plan_response
ExitCheck(lc, mx, plan) == lc >= mx - 1 \/ HasSentinel(plan)

\* the exit test holds: yield start_response and open the generation
StartResponse ==
  /\ impl = "chatbot" /\ pc = "planned"
  /\ ExitCheck(loop_count, max_loops, plan_response)
  /\ events' = Append(events, StartResponseEvent)
  /\ full_response' = <<>>
  /\ pc' = "streaming"
  /\ UNCHANGED <<compVars, call, reply, impl, max_loops, loop_count, plan_response, last_plan_response,
                 plan_calls, tool_log, result, accumulated_data, data_summary,
                 chunks, history, chat_history, fatal>>

\* one chunk of the stream with text: collect it and yield a token event
StreamChunk ==
  /\ impl = "chatbot" /\ pc = "streaming"
  /\ chunks < MaxChunks
  /\ \E f \in Fragments : full_response' = Append(full_response, f)
  /\ events' = Append(events, TokenEvent)
  /\ chunks' = chunks + 1
  /\ UNCHANGED <<compVars, call, reply, impl, max_loops, pc, loop_count, plan_response, last_plan_response,
                 plan_calls, tool_log, result, accumulated_data, data_summary,
                 history, chat_history, fatal>>

\* one chunk whose delta.content is None: nothing is yielded
StreamSkip ==
  /\ impl = "chatbot" /\ pc = "streaming"
  /\ chunks < MaxChunks
  /\ chunks' = chunks + 1
  /\ UNCHANGED <<compVars, call, reply, impl, max_loops, pc, loop_count, plan_response, last_plan_response,
                 plan_calls, tool_log, result, accumulated_data, data_summary,
                 events, full_response, history, chat_history, fatal>>

\* completions.create or the iteration of the stream raises
StreamFails ==
  /\ impl = "chatbot" /\ pc = "streaming"
  /\ Fatal("streaming")
  /\ LoopUnchanged

\* the stream is exhausted
StreamDone ==
  /\ impl = "chatbot" /\ pc = "streaming"
  /\ pc' = "persist"
  /\ UNCHANGED <<events, fatal>>
  /\ LoopUnchanged

\* the assistant message built from the collected fragments
AssistantMessage(frags) == [role |-> "assistant", content |-> Join(frags)]

\* _update_chat_history: append in memory, create the Message row; an
\* exception of the database is logged and swallowed
Persist ==
  /\ impl = "chatbot" /\ pc = "persist"
  /\ chat_history' = Append(chat_history, AssistantMessage(full_response))
  /\ \E db_ok \in BOOLEAN :
       history' = IF db_ok THEN Append(history, AssistantMessage(full_response))
                           ELSE history
  /\ pc' = "ending"
  /\ UNCHANGED <<compVars, call, reply, impl, max_loops, loop_count, plan_response, last_plan_response,
                 plan_calls, tool_log, result, accumulated_data, data_summary,
                 events, full_response, chunks, fatal>>

\* variant in which the loop goes on after the response
EndPcLoop == "incr"

\* break: the response leaves the while loop and the generator returns
EndPc == "returned"

\* yield the end event and break out of the loop
EmitEnd ==
  /\ impl = "chatbot" /\ pc = "ending"
  /\ events' = Append(events, EndEvent)
  /\ pc' = EndPc
  /\ UNCHANGED fatal
  /\ LoopUnchanged

\* variant in which an unmatched planning output ends the generator
NoOpPcReturn == "returned"

\* neither branch is taken: control falls to the bottom of the loop body
NoOpPc == "incr"

\* the planning output is empty or names no tool: nothing is executed
NoOpStep ==
  /\ impl = "chatbot" /\ pc = "planned"
  /\ ~ExitCheck(loop_count, max_loops, plan_response)
  /\ ~(Truthy(plan_response) /\ StartsWith(plan_response, "GET_TRNA"))
  /\ ~(Truthy(plan_response) /\ StartsWith(plan_response, "CRAP"))
  /\ pc' = NoOpPc
  /\ UNCHANGED <<events, fatal>>
  /\ LoopUnchanged

\* GET_TRNA branch: the parameters parse, tool_start is yielded
GetTrnaStart ==
  /\ impl = "chatbot" /\ pc = "planned"
  /\ ~ExitCheck(loop_count, max_loops, plan_response)
  /\ Truthy(plan_response) /\ StartsWith(plan_response, "GET_TRNA")
  /\ ~GetTrnaParseRaises(plan_response)
  /\ events' = Append(events, ToolStartEvent)
  /\ pc' = "call_rna"
  /\ UNCHANGED fatal
  /\ LoopUnchanged

\* GET_TRNA branch: float(value) or int(value) raises ValueError
GetTrnaParseFails ==
  /\ impl = "chatbot" /\ pc = "planned"
  /\ ~ExitCheck(loop_count, max_loops, plan_response)
  /\ Truthy(plan_response) /\ StartsWith(plan_response, "GET_TRNA")
  /\ GetTrnaParseRaises(plan_response)
  /\ Fatal("parse")
  /\ LoopUnchanged

\* len(result.data['sequences']) in the CRAP branch evaluates only when
\* result is bound to a successful search result
CrapProgressOk(res) == res.status = "success" /\ res.tool = "rna"

\* CRAP branch: tool_progress and tool_start are yielded
CrapStart ==
  /\ impl = "chatbot" /\ pc = "planned"
  /\ ~ExitCheck(loop_count, max_loops, plan_response)
  /\ Truthy(plan_response) /\ ~StartsWith(plan_response, "GET_TRNA")
  /\ StartsWith(plan_response, "CRAP")
  /\ CrapProgressOk(result)
  /\ events' = events \o <<ToolProgressEvent, ToolStartEvent>>
  /\ pc' = "call_crap"
  /\ UNCHANGED fatal
  /\ LoopUnchanged

\* CRAP branch: result is unbound (UnboundLocalError), a failure (data is
\* None, TypeError) or a region result (KeyError)
CrapStartFails ==
  /\ impl = "chatbot" /\ pc = "planned"
  /\ ~ExitCheck(loop_count, max_loops, plan_response)
  /\ Truthy(plan_response) /\ ~StartsWith(plan_response, "GET_TRNA")
  /\ StartsWith(plan_response, "CRAP")
  /\ ~CrapProgressOk(result)
  /\ Fatal("crap_progress")
  /\ LoopUnchanged

\* the entry of tool_log for an invocation made now
LogEntry(tool, params) ==
  [tool |-> tool, iter |-> loop_count, plan |-> plan_response, params |-> params]

\* await rna_tool.process_request(mcp_request): success with n records, or
\* a failure result
CallRna ==
  /\ impl = "chatbot" /\ pc = "call_rna"
  /\ tool_log' = Append(tool_log, LogEntry("rna", GetTrnaParams(plan_response)))
  /\ \/ \E n \in 0..MaxSeqs :
          result' = [status |-> "success", tool |-> "rna",
                     seqs |-> Rows(Len(tool_log) + 1, n)]
     \/ result' = [status |-> "error", tool |-> "rna", seqs |-> <<>>]
  /\ pc' = "rna_result"
  /\ UNCHANGED <<compVars, call, reply, impl, max_loops, loop_count, plan_response, last_plan_response,
                 plan_calls, accumulated_data, data_summary, events,
                 full_response, chunks, history, chat_history, fatal>>

\* variant in which the payloads of a call replace what was collected
AccumulateReplace(acc, payloads) == payloads

\* self.accumulated_data.append(...) for each payload of a successful call,
\* accumulated_data.extend(result_obj['data']) in processor.py
Accumulate(acc, payloads) == acc \o payloads

\* the events the else branch yields for a failure result
ToolFailureEvents(res) == <<ToolErrorEvent>>

\* variant in which a failure result ends the generator
AfterToolPcAbort(res) == IF res.status = "error" THEN "returned" ELSE "incr"

\* pc after the result of a tool call has been handled
AfterToolPc(res) == "incr"

\* the result of the search is handled: sequence_data events, accumulated
\* data and summary on success, one error event on failure
HandleRnaResult ==
  /\ impl = "chatbot" /\ pc = "rna_result"
  /\ IF result.status = "success"
       THEN /\ events' = events \o Repeat(SequenceDataEvent, Len(result.seqs))
            /\ accumulated_data' = Accumulate(accumulated_data, result.seqs)
            /\ data_summary' = [tool |-> "rna", items |-> result.seqs]
       ELSE /\ events' = events \o ToolFailureEvents(result)
            /\ UNCHANGED <<accumulated_data, data_summary>>
  /\ pc' = AfterToolPc(result)
  /\ UNCHANGED <<compVars, call, reply, impl, max_loops, loop_count, plan_response, last_plan_response,
                 plan_calls, tool_log, result, full_response, chunks, history,
                 chat_history, fatal>>

\* await crap_tool.process_request(mcp_request)
CallCrap ==
  /\ impl = "chatbot" /\ pc = "call_crap"
  /\ tool_log' = Append(tool_log, LogEntry("crap", CrapParams(plan_response)))
  /\ \/ result' = [status |-> "success", tool |-> "crap",
                   seqs |-> <<RegionNames[Len(tool_log) + 1]>>]
     \/ result' = [status |-> "error", tool |-> "crap", seqs |-> <<>>]
  /\ pc' = "crap_result"
  /\ UNCHANGED <<compVars, call, reply, impl, max_loops, loop_count, plan_response, last_plan_response,
                 plan_calls, accumulated_data, data_summary, events,
                 full_response, chunks, history, chat_history, fatal>>

\* the result of the region lookup is handled
HandleCrapResult ==
  /\ impl = "chatbot" /\ pc = "crap_result"
  /\ IF result.status = "success"
       THEN /\ events' = Append(events, ToolProgressEvent)
            /\ accumulated_data' = Accumulate(accumulated_data, result.seqs)
            /\ data_summary' = [tool |-> "crap", items |-> result.seqs]
       ELSE /\ events' = events \o ToolFailureEvents(result)
            /\ UNCHANGED <<accumulated_data, data_summary>>
  /\ pc' = AfterToolPc(result)
  /\ UNCHANGED <<compVars, call, reply, impl, max_loops, loop_count, plan_response, last_plan_response,
                 plan_calls, tool_log, result, full_response, chunks, history,
                 chat_history, fatal>>

\* last_plan_response = plan_response; loop_count += 1
Incr ==
  /\ impl = "chatbot" /\ pc = "incr"
  /\ last_plan_response' = SomePlan(plan_response)
  /\ loop_count' = loop_count + 1
  /\ pc' = "loop"
  /\ UNCHANGED <<compVars, call, reply, impl, max_loops, plan_response, plan_calls, tool_log, result,
                 accumulated_data, data_summary, events, full_response, chunks,
                 history, chat_history, fatal>>

\* process_message is exhausted: event_stream yields its end event
ViewEnd ==
  /\ impl = "chatbot" /\ pc = "returned"
  /\ events' = Append(events, ViewEndEvent)
  /\ pc' = "done"
  /\ UNCHANGED fatal
  /\ LoopUnchanged

ChatbotNext ==
  \/ ViewStart \/ Begin \/ LoopExit \/ Plan \/ PlanFails \/ StartResponse
  \/ StreamChunk \/ StreamSkip \/ StreamFails \/ StreamDone \/ Persist \/ EmitEnd
  \/ NoOpStep \/ GetTrnaStart \/ GetTrnaParseFails \/ CrapStart \/ CrapStartFails
  \/ CallRna \/ HandleRnaResult \/ CallCrap \/ HandleCrapResult \/ Incr \/ ViewEnd

(* ======================= processor.py + agents.py ======================= *)

\* keys the GET_TRNA parser of _execute_rna_tool recognises
P_Keys == {"Isotype_from_Anticodon", "Anticodon", "General_tRNA_Model_Score_min",
           "species", "limit"}

\* the params key a directive key is stored under by _execute_rna_tool
P_ParamName(k) ==
  CASE k = "Isotype_from_Anticodon" -> "isotype"
    [] k = "Anticodon" -> "anticodon"
    [] k = "General_tRNA_Model_Score_min" -> "min_score"
    [] OTHER -> k

\* float(value) / int(value) raises in _execute_rna_tool
P_ParseRaises(plan) ==
  \E i \in KvIdx(plan) :
     \/ plan[i].key = "General_tRNA_Model_Score_min" /\ ~IsFloat(plan[i].val)
     \/ plan[i].key = "limit" /\ ~IsInt(plan[i].val)

\* params built by _execute_rna_tool
P_Params(plan) ==
  LET idx == {i \in KvIdx(plan) : plan[i].key \in P_Keys}
      names == {P_ParamName(plan[i].key) : i \in idx}
  IN [n \in names |-> plan[LastIdx({i \in idx : P_ParamName(plan[i].key) = n})].val]

\* json.dumps(accumulated_data)
JsonDumps(data) == <<"[">> \o data \o <<"]">>

\* except Exception as e of processor.py process_message
P_Fatal(kind) ==
  /\ events' = Append(events, P_FatalErrorEvent)
  /\ fatal' = kind
  /\ pc' = "done"

\* process_message up to the planning loop: the start event
P_Begin ==
  /\ impl = "processor" /\ pc = "start"
  /\ events' = Append(events, P_StartEvent)
  /\ pc' = "p_loop"
  /\ UNCHANGED fatal
  /\ LoopUnchanged

\* for _ in range(PLANNING_LOOP_MAX)
P_LoopGuard(lc, mx) == lc < mx

\* one planning call that returns
P_Plan ==
  /\ impl = "processor" /\ pc = "p_loop"
  /\ P_LoopGuard(loop_count, max_loops)
  /\ \E p \in PlanOutputs :
       /\ plan_response' = p
       /\ plan_calls' = plan_calls + 1
       /\ pc' = "p_planned"
  /\ UNCHANGED <<compVars, call, reply, impl, max_loops, loop_count, last_plan_response, tool_log,
                 result, accumulated_data, data_summary, events, full_response,
                 chunks, history, chat_history, fatal>>

\* one planning call that raises
P_PlanFails ==
  /\ impl = "processor" /\ pc = "p_loop"
  /\ P_LoopGuard(loop_count, max_loops)
  /\ plan_calls' = plan_calls + 1
  /\ P_Fatal("planning")
  /\ UNCHANGED <<compVars, call, reply, impl, max_loops, loop_count, plan_response, last_plan_response,
                 tool_log, result, accumulated_data, data_summary,
                 full_response, chunks, history, chat_history>>

\* the range is exhausted
P_LoopEnd ==
  /\ impl = "processor" /\ pc = "p_loop"
  /\ ~P_LoopGuard(loop_count, max_loops)
  /\ pc' = "p_respond"
  /\ UNCHANGED <<events, fatal>>
  /\ LoopUnchanged

\* if "PLAN_COMPLETE=True" in plan_response: break
P_BreakCheck(plan) == HasSentinel(plan)

\* the sentinel is in the planning output: leave the loop
P_Break ==
  /\ impl = "processor" /\ pc = "p_planned"
  /\ P_BreakCheck(plan_response)
  /\ pc' = "p_respond"
  /\ UNCHANGED <<events, fatal>>
  /\ LoopUnchanged

\* no sentinel and no GET_TRNA prefix: next iteration
P_NoOp ==
  /\ impl = "processor" /\ pc = "p_planned"
  /\ ~P_BreakCheck(plan_response)
  /\ ~StartsWith(plan_response, "GET_TRNA")
  /\ last_plan_response' = SomePlan(plan_response)
  /\ loop_count' = loop_count + 1
  /\ pc' = "p_loop"
  /\ UNCHANGED <<compVars, call, reply, impl, max_loops, plan_response, plan_calls, tool_log, result,
                 accumulated_data, data_summary, events, full_response, chunks,
                 history, chat_history, fatal>>

\* _execute_rna_tool parses the directive and yields tool_start
P_ToolStart ==
  /\ impl = "processor" /\ pc = "p_planned"
  /\ ~P_BreakCheck(plan_response)
  /\ StartsWith(plan_response, "GET_TRNA")
  /\ ~P_ParseRaises(plan_response)
  /\ events' = Append(events, P_ToolStartEvent)
  /\ pc' = "p_call"
  /\ UNCHANGED fatal
  /\ LoopUnchanged

\* _execute_rna_tool raises ValueError while parsing
P_ToolParseFails ==
  /\ impl = "processor" /\ pc = "p_planned"
  /\ ~P_BreakCheck(plan_response)
  /\ StartsWith(plan_response, "GET_TRNA")
  /\ P_ParseRaises(plan_response)
  /\ P_Fatal("parse")
  /\ LoopUnchanged

\* await self.rna_tool.process_request(mcp_request)
P_Call ==
  /\ impl = "processor" /\ pc = "p_call"
  /\ tool_log' = Append(tool_log, LogEntry("rna", P_Params(plan_response)))
  /\ \/ \E n \in 0..MaxSeqs :
          result' = [status |-> "success", tool |-> "rna",
                     seqs |-> Rows(Len(tool_log) + 1, n)]
     \/ result' = [status |-> "error", tool |-> "rna", seqs |-> <<>>]
  /\ pc' = "p_result"
  /\ UNCHANGED <<compVars, call, reply, impl, max_loops, loop_count, plan_response, last_plan_response,
                 plan_calls, accumulated_data, data_summary, events,
                 full_response, chunks, history, chat_history, fatal>>

\* the events of _execute_rna_tool are forwarded, tool_result data is added
\* to accumulated_data; then the next iteration
P_Result ==
  /\ impl = "processor" /\ pc = "p_result"
  /\ IF result.status = "success"
       THEN /\ events' = events \o Repeat(P_SequenceDataEvent, Len(result.seqs))
                                \o <<P_ToolResultEvent>>
            /\ accumulated_data' = Accumulate(accumulated_data, result.seqs)
       ELSE /\ events' = Append(events, P_ToolErrorEvent)
            /\ UNCHANGED accumulated_data
  /\ last_plan_response' = SomePlan(plan_response)
  /\ loop_count' = loop_count + 1
  /\ pc' = "p_loop"
  /\ UNCHANGED <<compVars, call, reply, impl, max_loops, plan_response, plan_calls, tool_log, result,
                 data_summary, full_response, chunks, history, chat_history, fatal>>

\* stream_response yields start_response
P_StartResponse ==
  /\ impl = "processor" /\ pc = "p_respond"
  /\ events' = Append(events, A_StartResponseEvent)
  /\ pc' = "p_streaming"
  /\ UNCHANGED fatal
  /\ LoopUnchanged

\* one text of stream.text_stream is yielded as a token event
P_StreamChunk ==
  /\ impl = "processor" /\ pc = "p_streaming"
  /\ chunks < MaxChunks
  /\ \E f \in Fragments : full_response' = Append(full_response, f)
  /\ events' = Append(events, A_TokenEvent)
  /\ chunks' = chunks + 1
  /\ UNCHANGED <<compVars, call, reply, impl, max_loops, pc, loop_count, plan_response, last_plan_response,
                 plan_calls, tool_log, result, accumulated_data, data_summary,
                 history, chat_history, fatal>>

\* variant without the end_response event
A_StreamDoneSilent == <<>>

\* the events stream_response yields when the stream is exhausted
A_StreamDoneEvents == <<A_EndResponseEvent>>

\* the stream is exhausted: end_response
P_StreamDone ==
  /\ impl = "processor" /\ pc = "p_streaming"
  /\ events' = events \o A_StreamDoneEvents
  /\ pc' = "p_persist"
  /\ UNCHANGED fatal
  /\ LoopUnchanged

\* the generation raises: stream_response yields an error event and ends
P_StreamFails ==
  /\ impl = "processor" /\ pc = "p_streaming"
  /\ events' = Append(events, A_ErrorEvent)
  /\ fatal' = "streaming"
  /\ pc' = "p_persist"
  /\ LoopUnchanged

\* if accumulated_data: Message.objects.create(content=json.dumps(...))
P_Persist ==
  /\ impl = "processor" /\ pc = "p_persist"
  /\ accumulated_data # <<>>
  /\ history' = Append(history, [role |-> "assistant", content |-> JsonDumps(accumulated_data)])
  /\ pc' = "done"
  /\ UNCHANGED <<compVars, call, reply, impl, max_loops, loop_count, plan_response, last_plan_response,
                 plan_calls, tool_log, result, accumulated_data, data_summary,
                 events, full_response, chunks, chat_history, fatal>>

\* if accumulated_data: the database raises
P_PersistFails ==
  /\ impl = "processor" /\ pc = "p_persist"
  /\ accumulated_data # <<>>
  /\ P_Fatal("persist")
  /\ LoopUnchanged

\* accumulated_data is empty: nothing is saved
P_NoPersist ==
  /\ impl = "processor" /\ pc = "p_persist"
  /\ accumulated_data = <<>>
  /\ pc' = "done"
  /\ UNCHANGED <<events, fatal>>
  /\ LoopUnchanged

ProcessorNext ==
  \/ P_Begin \/ P_Plan \/ P_PlanFails \/ P_LoopEnd \/ P_Break \/ P_NoOp
  \/ P_ToolStart \/ P_ToolParseFails \/ P_Call \/ P_Result \/ P_StartResponse
  \/ P_StreamChunk \/ P_StreamDone \/ P_StreamFails
  \/ P_Persist \/ P_PersistFails \/ P_NoPersist

(* ======================= tool adapters ================================== *)

\* frame of the planning loop
LoopVarsUnchanged ==
  UNCHANGED <<impl, max_loops, loop_count, plan_response, last_plan_response,
              plan_calls, tool_log, result, accumulated_data, data_summary,
              events, full_response, chunks, history, chat_history, fatal>>

\* one search request reaches an implementation of search_rna
AdapterInit ==
  /\ call \in SearchCalls \cup EnvelopeCalls
  /\ reply = NoReply
  /\ impl = "chatbot"
  /\ max_loops = 0
  /\ history = <<UserMsg>>
  /\ LoopInit
  /\ CompIdle

\* the search runs
DoSearch ==
  /\ call.kind = "search" /\ reply = NoReply
  /\ reply' = SearchOf(call)
  /\ UNCHANGED <<compVars, call, pc>>
  /\ LoopVarsUnchanged

\* process_request runs
DoProcessRequest ==
  /\ call.kind = "envelope" /\ reply = NoReply
  /\ reply' = ProcessRequestOf(call)
  /\ UNCHANGED <<compVars, call, pc>>
  /\ LoopVarsUnchanged

AdapterNext == DoSearch \/ DoProcessRequest

SpecAdapter == AdapterInit /\ [][AdapterNext]_vars

(* ======================= wrapped tools and the cache ==================== *)

\* frame of the planning loop and of the adapter under test
IdleUnchanged == LoopVarsUnchanged /\ UNCHANGED <<call, reply, pc, authVars>>

IdleInit ==
  /\ AuthIdle
  /\ call = NoCall
  /\ reply = NoReply
  /\ impl = "chatbot"
  /\ max_loops = 0
  /\ history = <<UserMsg>>
  /\ LoopInit

\* a cache implementation is chosen by get_cache, the tools are wrapped
CacheInit ==
  /\ cache_impl \in CacheImpls
  /\ wrap \in WrapArgs
  /\ CacheIdle
  /\ EventIdle
  /\ IdleInit

\* CachedTool.process_request for tool t and request r, with MonitoredTool
\* around the tool when monitoring is enabled; o is what the tool does with
\* the request if it is reached
CachedProcessRequest ==
  /\ Len(served) < MaxRequests
  /\ probe = NoProbe
  /\ \E t \in ToolClasses, r \in Requests, o \in Outcomes :
       LET key == CacheKey(WrappedClass(t, wrap), r)
           cached == CacheGet(cache_impl, store, key, now)
           serial == invoked[t] + 1
           propagates == o = "raise" /\ ~wrap.monitoring
           returned == IF o = "raise" THEN NoValue ELSE ToolResponse(t, o, serial)
           response == IF ~wrap.monitoring THEN returned
                       ELSE IF o = "raise" THEN MonitoredError(t, serial)
                       ELSE MonitoredForward(returned)
           after == IF wrap.monitoring THEN MonitoredMetrics(metrics[t], o) ELSE metrics[t]
       IN IF CachedTruthy(cached)
            THEN /\ served' = Append(served, Served(t, r, TRUE, NoValue, cached, now,
                                metrics[t].total_calls, metrics[t].total_calls))
                 /\ UNCHANGED <<store, metrics, invoked>>
            ELSE /\ invoked' = [invoked EXCEPT ![t] = serial]
                 /\ metrics' = [metrics EXCEPT ![t] = after]
                 /\ store' = IF ~propagates /\ ShouldCache(response)
                               THEN CacheSet(cache_impl, store, key, response, wrap.cache_ttl, now)
                               ELSE store
                 /\ served' = Append(served, Served(t, r, FALSE, returned, response, now,
                                metrics[t].total_calls, after.total_calls))
  /\ UNCHANGED <<cache_impl, wrap, now, probe>>
  /\ UNCHANGED <<concVars, eventVars>>
  /\ IdleUnchanged

\* cache.set(key, value, expiry) called directly, on a key of its own
DirectSet ==
  /\ served = <<>>
  /\ probe.sets < MaxSets
  /\ \E v \in DirectValues, ttl \in CacheTtls :
       /\ store' = CacheSet(cache_impl, store, AppKey, v, ttl, now)
       /\ probe' = Probe(probe.sets + 1, v, ttl, now, FALSE, 0, NoValue)
  /\ UNCHANGED <<cache_impl, wrap, now, metrics, invoked, served>>
  /\ UNCHANGED <<concVars, eventVars>>
  /\ IdleUnchanged

\* cache.get(key) called directly, after a set
DirectGet ==
  /\ probe.sets > 0 /\ ~probe.read
  /\ probe' = [probe EXCEPT !.read = TRUE, !.read_at = now,
                            !.got = CacheGet(cache_impl, store, AppKey, now)]
  /\ UNCHANGED <<cache_impl, wrap, store, now, metrics, invoked, served>>
  /\ UNCHANGED <<concVars, eventVars>>
  /\ IdleUnchanged

\* a second passes
Tick ==
  /\ now < MaxTime
  /\ now' = now + 1
  /\ UNCHANGED <<cache_impl, wrap, store, metrics, invoked, served, probe>>
  /\ UNCHANGED <<concVars, eventVars>>
  /\ IdleUnchanged

CacheNext == CachedProcessRequest \/ DirectSet \/ DirectGet \/ Tick

SpecCache == CacheInit /\ [][CacheNext]_vars

(* ======================= one EventManager =============================== *)

\* a session whose producers have events to push and whose consumer iterates
\* get_events
EventInit ==
  /\ queue = <<>>
  /\ unfinished = 0
  /\ pushed = <<>>
  /\ observed = <<>>
  /\ todo \in [Producers -> 0..MaxEvents]
  /\ consumer = "waiting"
  /\ registry = {}
  /\ CacheCompIdle
  /\ IdleInit

\* add_event: build the event, format it and put it: the queue is unbounded,
\* so put never suspends and the whole call is one step of the event loop
AddEvent ==
  /\ \E p \in Producers :
       /\ todo[p] > 0
       /\ queue' = Append(queue, FormatSse(EventOf(p, todo[p])))
       /\ pushed' = Append(pushed, EventOf(p, todo[p]))
       /\ todo' = [todo EXCEPT ![p] = @ - 1]
  /\ unfinished' = unfinished + 1
  /\ UNCHANGED <<observed, consumer>>
  /\ UNCHANGED <<registry, cacheVars>>
  /\ IdleUnchanged

\* get_events: await self.queue.get() returns an item, which is yielded
GetEvent ==
  /\ consumer = "waiting" /\ queue # <<>>
  /\ observed' = Append(observed, QueueGet(queue).item)
  /\ queue' = QueueGet(queue).rest
  /\ consumer' = "yielded"
  /\ UNCHANGED <<unfinished, pushed, todo>>
  /\ UNCHANGED <<registry, cacheVars>>
  /\ IdleUnchanged

\* the consumer asks for the next event: task_done, then the loop again
TaskDone ==
  /\ consumer = "yielded"
  /\ unfinished' = unfinished - 1
  /\ consumer' = "waiting"
  /\ UNCHANGED <<queue, pushed, observed, todo>>
  /\ UNCHANGED <<registry, cacheVars>>
  /\ IdleUnchanged

\* CancelledError while waiting in queue.get(): break
CancelConsumer ==
  /\ consumer = "waiting"
  /\ consumer' = "cancelled"
  /\ UNCHANGED <<queue, unfinished, pushed, observed, todo>>
  /\ UNCHANGED <<registry, cacheVars>>
  /\ IdleUnchanged

\* the consumer closes the generator while it is suspended at the yield
CloseConsumer ==
  /\ consumer = "yielded"
  /\ consumer' = "closed"
  /\ UNCHANGED <<queue, unfinished, pushed, observed, todo>>
  /\ UNCHANGED <<registry, cacheVars>>
  /\ IdleUnchanged

\* get_event_manager(chat_id) for a chat without an entry: an EventManager is
\* created and stored under the chat id (for a chat that has one, the call
\* returns it and changes nothing)
GetEventManager ==
  /\ \E c \in ChatIds :
       /\ c \notin registry
       /\ registry' = registry \cup {c}
  /\ UNCHANGED <<queue, unfinished, pushed, observed, todo, consumer>>
  /\ UNCHANGED cacheVars
  /\ IdleUnchanged

\* cleanup_event_manager(chat_id): the entry is deleted if there is one
CleanupEventManager ==
  /\ \E c \in ChatIds :
       /\ c \in registry
       /\ registry' = registry \ {c}
  /\ UNCHANGED <<queue, unfinished, pushed, observed, todo, consumer>>
  /\ UNCHANGED cacheVars
  /\ IdleUnchanged

EventNext ==
  \/ AddEvent \/ GetEvent \/ TaskDone \/ CancelConsumer \/ CloseConsumer
  \/ GetEventManager \/ CleanupEventManager

SpecEvents == EventInit /\ [][EventNext]_vars

\* the event loop runs every coroutine that is ready: a producer with an
\* event to push pushes it, a consumer whose get can return takes the item.
\* Nothing is bound to call get_event_manager or cleanup_event_manager, and
\* whether the client goes away is the client's choice
SpecEventsFair ==
  SpecEvents /\ WF_vars(AddEvent) /\ WF_vars(GetEvent) /\ WF_vars(TaskDone)

(* ======================= concurrent sessions ============================ *)

\* the requests the concurrent sessions send
ConcRequests == {ReqA, ReqB}

\* the clock stands still while the sessions overlap, so one TTL is enough
ConcInit ==
  /\ cache_impl \in CacheImpls
  /\ wrap \in {w \in WrapArgs : w.cache_ttl = 2}
  /\ CacheIdle
  /\ EventIdle
  /\ IdleInit

ConcFrame ==
  /\ UNCHANGED <<cache_impl, wrap, now, served, probe>>
  /\ UNCHANGED eventVars
  /\ IdleUnchanged

\* CachedTool.process_request up to its await: the key, cache.get, and on a
\* miss the call of the wrapped tool, which suspends the session
BeginRequest ==
  /\ \E s \in Sessions, t \in ToolClasses, r \in ConcRequests :
       LET key == CacheKey(WrappedClass(t, wrap), r)
           cached == CacheGet(cache_impl, store, key, now)
       IN /\ sessions[s].pc = "idle"
          /\ invoked[t] < MaxInvocations
          /\ IF CachedTruthy(cached)
               THEN /\ sessions' = [sessions EXCEPT ![s] = Session("idle", t, r, 0, cached)]
                    /\ sessions'[s] # sessions[s]
                    /\ UNCHANGED invoked
               ELSE /\ sessions' = [sessions EXCEPT
                                     ![s] = Session("awaiting", t, r, invoked[t] + 1, NoValue)]
                    /\ invoked' = [invoked EXCEPT ![t] = @ + 1]
  /\ UNCHANGED <<store, metrics, finished>>
  /\ ConcFrame

\* the underlying tool returns or raises: MonitoredTool records the outcome,
\* CachedTool stores a successful response, the session has its answer
CompleteRequest ==
  /\ \E s \in Sessions, o \in Outcomes :
       LET t == sessions[s].tool
           r == sessions[s].req
           key == CacheKey(WrappedClass(t, wrap), r)
           propagates == o = "raise" /\ ~wrap.monitoring
           returned == IF o = "raise" THEN NoValue ELSE ToolResponse(t, o, sessions[s].serial)
           response == IF ~wrap.monitoring THEN returned
                       ELSE IF o = "raise" THEN MonitoredError(t, sessions[s].serial)
                       ELSE MonitoredForward(returned)
       IN /\ sessions[s].pc = "awaiting"
          /\ metrics' = [metrics EXCEPT
                           ![t] = IF wrap.monitoring THEN MonitoredMetrics(@, o) ELSE @]
          /\ store' = IF ~propagates /\ ShouldCache(response)
                        THEN CacheSet(cache_impl, store, key, response, wrap.cache_ttl, now)
                        ELSE store
          /\ finished' = [finished EXCEPT ![t] = @ + 1]
          /\ sessions' = [sessions EXCEPT ![s] = Session("idle", t, r, 0, response)]
  /\ UNCHANGED invoked
  /\ ConcFrame

\* the session is cancelled while it is suspended: CancelledError is not an
\* Exception, so it passes the handler of MonitoredTool and leaves
\* CachedTool before cache.set
CancelRequest ==
  /\ \E s \in Sessions :
       /\ sessions[s].pc = "awaiting"
       /\ sessions' = [sessions EXCEPT
                         ![s] = Session("idle", sessions[s].tool, sessions[s].req, 0, NoValue)]
  /\ UNCHANGED <<store, metrics, invoked, finished>>
  /\ ConcFrame

ConcNext == BeginRequest \/ CompleteRequest \/ CancelRequest

SpecConc == ConcInit /\ [][ConcNext]_vars

(* ======================= tokens and the user row ======================== *)

AuthInit ==
  /\ CacheCompIdle
  /\ EventIdle
  /\ IdleInit

AuthFrame ==
  /\ LoopVarsUnchanged
  /\ UNCHANGED <<call, reply, pc, cacheVars, eventVars>>

\* a handler loads the user: authenticate() of a login, User.objects.get of
\* a failed login, or the caller of revoke_refresh_token
LoadUser ==
  /\ \E q \in AuthRequests, path \in {"login", "failed", "revoke"} :
       /\ snap[q].pc = "idle"
       /\ snap' = [snap EXCEPT ![q] = Snap("loaded", path, user_row)]
  /\ UNCHANGED <<user_row, issued, revoked, auth_log>>
  /\ AuthFrame

\* user.save() of LoginView.post after the counters of failed logins were
\* changed: save() writes every column of the object in memory
SaveUser ==
  /\ \E q \in AuthRequests :
       /\ snap[q].pc = "loaded" /\ snap[q].path \in {"login", "failed"}
       /\ user_row' = snap[q].row
       /\ snap' = [snap EXCEPT ![q] = IF snap[q].path = "login"
                                        THEN Snap("saved", "login", snap[q].row)
                                        ELSE NoSnap]
  /\ UNCHANGED <<issued, revoked, auth_log>>
  /\ AuthFrame

\* create_tokens(user): new jtis, user.refresh_token_jti = refresh_jti,
\* user.save()
CreateTokens ==
  /\ \E q \in AuthRequests :
       /\ snap[q].pc = "saved"
       /\ issued < MaxIssued
       /\ issued' = issued + 1
       /\ user_row' = Row(issued + 1, snap[q].row.active)
       /\ snap' = [snap EXCEPT ![q] = NoSnap]
  /\ revoked' = FALSE
  /\ UNCHANGED auth_log
  /\ AuthFrame

\* revoke_refresh_token(user): user.refresh_token_jti = None, user.save()
RevokeRefreshToken ==
  /\ \E q \in AuthRequests :
       /\ snap[q].pc = "loaded" /\ snap[q].path = "revoke"
       /\ user_row' = Row(0, snap[q].row.active)
       /\ snap' = [snap EXCEPT ![q] = NoSnap]
  /\ revoked' = TRUE
  /\ UNCHANGED <<issued, auth_log>>
  /\ AuthFrame

\* an administrator clears is_active of the user
Deactivate ==
  /\ user_row.active
  /\ user_row' = [user_row EXCEPT !.active = FALSE]
  /\ UNCHANGED <<issued, revoked, snap, auth_log>>
  /\ AuthFrame

\* a chat endpoint receives a bearer token: get_user_from_token
ChatRequest ==
  /\ \E tok \in TokensUpTo(issued) :
       auth_log' = Decision("chat", tok, GetUserFromToken(tok, user_row), user_row)
  /\ auth_log' # auth_log
  /\ UNCHANGED <<user_row, issued, revoked, snap>>
  /\ AuthFrame

\* RefreshTokenView.post: refresh_access_token(refresh_token), which returns
\* a new access token when verify_token(refresh_token, 'refresh') returns
RefreshRequest ==
  /\ \E tok \in TokensUpTo(issued) :
       auth_log' = Decision("refresh", tok, VerifyToken(tok, "refresh", user_row), user_row)
  /\ auth_log' # auth_log
  /\ UNCHANGED <<user_row, issued, revoked, snap>>
  /\ AuthFrame

AuthNext ==
  \/ LoadUser \/ SaveUser \/ CreateTokens \/ RevokeRefreshToken \/ Deactivate
  \/ ChatRequest \/ RefreshRequest

SpecAuth == AuthInit /\ [][AuthNext]_vars

Next == ChatbotNext \/ ProcessorNext

Spec == Init /\ [][Next]_vars

(* ======================= properties ===================================== *)

InitialHistories == {<<UserMsg>>, OldPair \o <<UserMsg>>}

LastTool == tool_log[Len(tool_log)]

\* the events of evs that satisfy Test, counted
CountEvents(evs, Test(_)) == Cardinality({i \in 1..Len(evs) : Test(evs[i])})

IsToken(e) == e.type = "token"
IsError(e) == e.type = "error"
IsStartMarker(e) == e.type \in {"start", "start_response"}
IsEndMarker(e) == e.type \in {"end", "end_response"}
\* an error event of an except handler that ends the run or the generation
IsFatalError(e) == e.type = "error" /\ e.src \in {"core", "agent"} /\ e.key # "message"
\* the end of a response yielded by the generation itself
IsResponseEnd(e) == IsEndMarker(e) /\ e.src \in {"core", "agent"}

ReachedResponse == \E i \in 1..Len(events) : events[i].type = "start_response"
StartBeforeTokens ==
  \E i \in 1..Len(events) :
     IsStartMarker(events[i]) /\ \A j \in 1..Len(events) : IsToken(events[j]) => i < j
EndAfterTokens ==
  \E k \in 1..Len(events) :
     IsEndMarker(events[k]) /\ \A j \in 1..Len(events) : IsToken(events[j]) => j < k
GenerationFailed ==
  fatal = "streaming" \/ \E i \in 1..Len(events) : events[i] = A_ErrorEvent

\* C1: the number of planning calls (get_next_step) of a session never
\* exceeds the configured maximum PLANNING_LOOP_MAX, whatever the planning
\* outputs and tool results are, unparseable outputs included.
C1_PlanningBounded == plan_calls <= max_loops

\* C1 witness: every allowed planning call was made and the outputs were
\* unparseable.
C1_Witness ==
  /\ max_loops >= 2 /\ plan_calls = max_loops
  /\ plan_response = P_junk /\ last_plan_response = SomePlan(P_junk)

\* C2: a planning output that contains PLAN_COMPLETE=True, at any iteration
\* and whatever else it contains, is never executed as a tool call, and the
\* step taken on it leads to the response phase.
C2_SentinelExits ==
  /\ [](\A i \in 1..Len(tool_log) : ~HasSentinel(tool_log[i].plan))
  /\ [][(pc \in {"planned", "p_planned"} /\ HasSentinel(plan_response))
          => (pc' \in {"streaming", "p_respond"} /\ tool_log' = tool_log
              /\ fatal' = "none")]_vars

\* C2 witness: a GET_TRNA line carrying the sentinel, before the last allowed
\* iteration and after an earlier tool call, has opened the response.
C2_Witness ==
  /\ pc \in {"streaming", "p_streaming"} /\ HasSentinel(plan_response)
  /\ StartsWith(plan_response, "GET_TRNA")
  /\ loop_count > 0 /\ loop_count < max_loops - 1 /\ Len(tool_log) > 0

\* C3: in the loop of chatbot.py, when a tool adapter has returned a failure
\* result, handling it yields exactly one error event and nothing else, the
\* loop counter is then incremented, the loop test then holds and the next
\* step is a planning call; the run is not ended by the failure.
C3_ToolFailureContinues ==
  /\ [][(pc \in {"rna_result", "crap_result"} /\ result.status = "error")
          => (/\ Len(events') = Len(events) + 1
              /\ IsError(events'[Len(events')])
              /\ SubSeq(events', 1, Len(events)) = events
              /\ pc' = "incr" /\ fatal' = "none")]_vars
  /\ [][pc = "incr" => (loop_count' = loop_count + 1 /\ pc' = "loop")]_vars
  /\ [](pc = "loop" /\ loop_count > 0 => loop_count < max_loops)
  /\ [][(pc = "loop" /\ loop_count > 0) => plan_calls' = plan_calls + 1]_vars

\* C3 witness: the planning call that follows a failed tool call has returned.
C3_Witness ==
  /\ impl = "chatbot" /\ pc = "planned" /\ fatal = "none"
  /\ result.status = "error" /\ Len(tool_log) > 0
  /\ LastTool.iter = loop_count - 1
  /\ CountEvents(events, IsError) = 1

\* C4: in the loop of chatbot.py, on the last allowed iteration the step
\* taken on the planning output opens the response, yields no error event,
\* and the output is neither parsed nor executed: no tool call is ever made
\* on the last allowed iteration.
C4_ForcedExit ==
  /\ [](impl = "chatbot" =>
          \A i \in 1..Len(tool_log) : tool_log[i].iter < max_loops - 1)
  /\ [][(impl = "chatbot" /\ pc = "planned" /\ loop_count >= max_loops - 1)
          => (/\ pc' = "streaming"
              /\ events' = Append(events, StartResponseEvent)
              /\ tool_log' = tool_log /\ fatal' = "none")]_vars

\* C4 witness: a well-formed GET_TRNA directive without the sentinel arrived
\* on the last allowed iteration and the response was opened.
C4_Witness ==
  /\ impl = "chatbot" /\ pc = "streaming" /\ max_loops >= 2
  /\ loop_count = max_loops - 1
  /\ plan_response \in {P_rna, P_rna_badnum, P_crap}

\* C5: at the end of a successful run of chatbot.py (the end event of the
\* response was yielded and no failure was reported) exactly one new
\* assistant message has been appended to the stored conversation, and its
\* content is the concatenation of the streamed fragments in order.
C5_OneMessagePersisted ==
  (impl = "chatbot" /\ pc \in {"returned", "done"} /\ fatal = "none"
     /\ \E i \in 1..Len(events) : events[i] = EndEvent)
  => \E h \in InitialHistories :
        history = Append(h, [role |-> "assistant", content |-> Join(full_response)])

C7_ErrorOrResponse ==
  pc = "done" =>
    /\ fatal # "none" => CountEvents(events, IsFatalError) >= 1
    /\ (impl = "chatbot" /\ fatal # "none") => CountEvents(events, IsFatalError) = 1
    /\ \/ \E i \in 1..Len(events) : IsResponseEnd(events[i])
       \/ \E i \in 1..Len(events) : IsError(events[i])

\* C8: once a planning call has failed, an error event has been yielded, and
\* from then on no planning call and no tool invocation is made, no token is
\* streamed and no assistant message is stored.
C8_PlanningFailureEnds ==
  /\ [](fatal = "planning" =>
          /\ \E i \in 1..Len(events) : IsFatalError(events[i])
          /\ CountEvents(events, IsToken) = 0
          /\ history \in InitialHistories)
  /\ [][fatal = "planning" =>
          /\ plan_calls' = plan_calls /\ tool_log' = tool_log
          /\ history' = history /\ full_response' = full_response
          /\ CountEvents(events', IsToken) = CountEvents(events, IsToken)]_vars

\* C8 witness: the planning call after a tool call failed, and the stream of
\* the request was closed.
C8_Witness ==
  /\ fatal = "planning" /\ pc = "done" /\ Len(tool_log) > 0
  /\ events[Len(events)] = ViewEndEvent

\* C9: a search never returns more than the ceiling MAX_RESULTS, and when
\* enough rows match a requested limit L >= 0 it returns min(L, MAX_RESULTS).
C9_LimitClamped ==
  (call.kind = "search" /\ reply.status = "success") =>
    /\ reply.count <= MAX_RESULTS
    /\ (call.limit.given /\ call.limit.ok /\ call.limit.n >= 0
          /\ call.rows >= Min(call.limit.n, MAX_RESULTS))
       => reply.count = Min(call.limit.n, MAX_RESULTS)

StableCodes == {"NOT_FOUND", "INVALID_PARAM", "BACKEND_ERROR", "TIMEOUT"}

\* C10: process_request of every adapter returns a result and never raises,
\* and a failure result carries a code of the stable set.
C10_FailureEnvelope ==
  (call.kind = "envelope" /\ reply.status # "none") =>
    /\ reply.status # "raised"
    /\ reply.status = "error" => reply.code \in StableCodes

(* ---------------- wrapped tools and the cache --------------------------- *)

\* the key CachedTool computes for an answered request
ServedKey(e) == CacheKey(WrappedClass(e.tool, wrap), e.req)

\* the second of two answered requests came within the TTL of the first
WithinTtl(e1, e2) == wrap.cache_ttl > 0 /\ e2.at < e1.at + wrap.cache_ttl

\* C11: a request whose key has a cached entry is answered with the cached
\* result, the underlying tool is not invoked and the metrics of the wrapped
\* tool do not change.
C11_HitSkipsTool ==
  [][Len(served') = Len(served) + 1 =>
       LET e == served'[Len(served')]
           cached == CacheGet(cache_impl, store, ServedKey(e), now)
       IN cached.kind # "none" =>
            /\ e.hit /\ e.resp = cached
            /\ invoked' = invoked
            /\ metrics' = metrics]_vars

\* C11 witness: a monitored tool answered a request twice, the second time
\* from the cache with the response of its first invocation, inside the TTL.
C11_Witness ==
  /\ Len(served) = 2 /\ wrap.monitoring /\ WithinTtl(served[1], served[2])
  /\ ~served[1].hit /\ served[2].hit
  /\ served[2].tool = served[1].tool /\ served[2].resp = served[1].resp
  /\ invoked[served[2].tool] = 1 /\ metrics[served[2].tool].total_calls = 1

\* C12: a request that returns a failure result leaves no entry for its key
\* in the cache, and the next request, when it is the same request (same
\* tool, method and parameter text, hence same key), invokes the tool again.
C12_FailuresNotCached ==
  /\ [][Len(served') = Len(served) + 1 =>
          LET e == served'[Len(served')]
          IN e.resp.status = "error" =>
               CacheGet(cache_impl, store', ServedKey(e), now').kind = "none"]_vars
  /\ [](\A i \in 1..(Len(served) - 1) :
          (/\ served[i].resp.status = "error"
           /\ served[i + 1].tool = served[i].tool
           /\ served[i + 1].req = served[i].req)
          => ~served[i + 1].hit)
  /\ [][Len(served') = Len(served) + 1 /\ Len(served) > 0 =>
          LET e == served'[Len(served')]
              p == served[Len(served)]
          IN (p.resp.status = "error" /\ e.tool = p.tool /\ e.req = p.req)
               => invoked'[e.tool] = invoked[e.tool] + 1]_vars

\* C12 witness: a request failed, the identical request that followed reached
\* the tool a second time.
C12_Witness ==
  /\ Len(served) = 2
  /\ served[1].resp.status = "error" /\ served[1].resp.code = "TOOL_ERROR"
  /\ served[2].tool = served[1].tool /\ served[2].req = served[1].req
  /\ ~served[2].hit /\ invoked[served[2].tool] = 2

\* C13: two requests in sequence to the same wrapped tool with the same
\* method and the same parameters (in the same order), the second within the
\* TTL of the first, make total_calls of the metrics wrapper grow by exactly
\* one when the first reached the tool and succeeded, with either cache.
C13_OneBackendCall ==
  \A i \in 1..(Len(served) - 1) :
    (/\ wrap.monitoring
     /\ served[i + 1].tool = served[i].tool
     /\ served[i + 1].req = served[i].req
     /\ WithinTtl(served[i], served[i + 1])
     /\ ~served[i].hit /\ served[i].resp.status = "success")
    => served[i + 1].calls_after = served[i].calls_before + 1

(* ---------------- the event queue --------------------------------------- *)

\* the formatted events e1..en in push order
PushedLines == [i \in 1..Len(pushed) |-> FormatSse(pushed[i])]

\* C14: what the consumer of get_events has observed, followed by what still
\* waits in the queue, is exactly the pushed events in push order: no gap, no
\* duplicate, no reordering, however the producers interleave.
C14_FifoNoGaps == observed \o queue = PushedLines

\* C14 witness: two producers pushed two events each, alternating, and the
\* consumer has observed all four.
C14_Witness ==
  /\ Len(pushed) = 4 /\ Len(observed) = 4 /\ queue = <<>>
  /\ pushed[1].data[1] # pushed[2].data[1]
  /\ pushed[2].data[1] # pushed[3].data[1]
  /\ \A p \in Producers : todo[p] = 0

(* ---------------- directives, no-op steps, persistence ------------------ *)

\* a GET_TRNA directive with an unparseable numeric value is about to be
\* dispatched (it is not taken as the end of planning)
BadNumberDispatch ==
  /\ StartsWith(plan_response, "GET_TRNA")
  /\ \/ /\ impl = "chatbot" /\ pc = "planned"
        /\ ~ExitCheck(loop_count, max_loops, plan_response)
        /\ GetTrnaParseRaises(plan_response)
     \/ /\ impl = "processor" /\ pc = "p_planned"
        /\ ~P_BreakCheck(plan_response)
        /\ P_ParseRaises(plan_response)

\* C15: dispatching a GET_TRNA directive whose limit or score value does not
\* parse as a number does not abort the session: no fatal error event is
\* emitted, no failure is recorded and the generator does not return.
C15_BadNumberNotFatal ==
  [][BadNumberDispatch =>
       /\ fatal' = "none"
       /\ CountEvents(events', IsFatalError) = CountEvents(events, IsFatalError)
       /\ pc' \notin {"returned", "done"}]_vars

\* a planning output that is neither the sentinel nor a tool directive
Unrecognised(plan) ==
  ~HasSentinel(plan) /\ ~StartsWith(plan, "GET_TRNA") /\ ~StartsWith(plan, "CRAP")

\* C16: an unrecognised planning output on an iteration that is not the last
\* allowed one causes no tool call, no outbound event, no change of the
\* accumulated data and no failure, and costs exactly one iteration.
C16_NoOpStep ==
  /\ [][(pc \in {"planned", "p_planned"} /\ Unrecognised(plan_response)
            /\ loop_count < max_loops - 1) =>
          /\ tool_log' = tool_log /\ events' = events
          /\ accumulated_data' = accumulated_data /\ data_summary' = data_summary
          /\ fatal' = "none"
          /\ (impl = "chatbot" => pc' = "incr" /\ loop_count' = loop_count)
          /\ (impl = "processor" => pc' = "p_loop" /\ loop_count' = loop_count + 1)]_vars
  /\ [][(pc = "incr" /\ Unrecognised(plan_response)) =>
          /\ loop_count' = loop_count + 1 /\ pc' = "loop"
          /\ tool_log' = tool_log /\ events' = events
          /\ accumulated_data' = accumulated_data /\ fatal' = "none"]_vars

\* C16 witness: chatbot.py went through an iteration on unparseable output
\* and is planning again, with nothing emitted but the start of the stream.
C16_Witness ==
  /\ impl = "chatbot" /\ pc = "planned" /\ max_loops = 3
  /\ loop_count = 1 /\ plan_calls = 2
  /\ last_plan_response = SomePlan(P_junk)
  /\ events = <<ViewStartEvent>> /\ tool_log = <<>> /\ accumulated_data = <<>>

\* C17 as stated: after an unrecognised planning output no further planning
\* call is made (the output counts as completion).
C17_ImplicitCompletion ==
  [][(plan_calls' = plan_calls + 1 /\ plan_calls > 0) => ~Unrecognised(plan_response)]_vars

\* the step opens the response phase
OpensResponse ==
  CountEvents(events', LAMBDA e : e.type = "start_response")
    > CountEvents(events, LAMBDA e : e.type = "start_response")

\* C17 amended: an unrecognised planning output is not a completion. The
\* response phase is opened only by an output that contains the sentinel or
\* by the iteration limit (the last allowed iteration in chatbot.py, the
\* exhausted loop in processor.py); an unrecognised output before that is
\* followed by the next iteration of the loop.
C17_Amended ==
  /\ [][OpensResponse =>
          \/ HasSentinel(plan_response)
          \/ impl = "chatbot" /\ loop_count >= max_loops - 1
          \/ impl = "processor" /\ loop_count >= max_loops]_vars
  /\ [][(pc \in {"planned", "p_planned"} /\ Unrecognised(plan_response)
            /\ loop_count < max_loops - 1) =>
          pc' \in {"incr", "p_loop"}]_vars

\* C17 witness: an empty planning output was followed by a second planning
\* call, whose sentinel opened the response before the iteration limit.
C17_Witness ==
  /\ max_loops = 3 /\ plan_calls = 2 /\ loop_count = 1
  /\ last_plan_response = SomePlan(P_empty)
  /\ plan_response = P_done /\ ReachedResponse

\* C18: when the generation failed after fragments were emitted, the token
\* events stay in the stream and the stored conversation of the finished
\* request ends with the assistant message made of those fragments.
C18_PartialPersisted ==
  (pc = "done" /\ fatal = "streaming" /\ full_response # <<>>) =>
    /\ CountEvents(events, IsToken) = Len(full_response)
    /\ history[Len(history)] = AssistantMessage(full_response)

\* C19: in every state in which chatbot.py has emitted the end event of the
\* response, the stored conversation ends with the assistant message of the
\* run.
C19_EndAfterPersist ==
  (impl = "chatbot" /\ \E i \in 1..Len(events) : events[i] = EndEvent) =>
    history[Len(history)] = AssistantMessage(full_response)

\* C20: a successful search of RNADatabaseMCP stores exactly as many records
\* as it returns, and with enough matching rows a requested limit L >= 0
\* gives min(L, MAX_RESULTS) records returned and stored (limit 50: 10 and 10).
C20_StoredOncePerRecord ==
  (call.kind = "search" /\ call.adapter = "mcp" /\ reply.status = "success") =>
    /\ reply.stored = reply.count
    /\ (call.limit.given /\ call.limit.ok /\ call.limit.n >= 0
          /\ call.rows >= Min(call.limit.n, MAX_RESULTS))
       => (reply.count = Min(call.limit.n, MAX_RESULTS)
           /\ reply.stored = Min(call.limit.n, MAX_RESULTS))

(* ---------------- the cache used directly, expiry, tool identity -------- *)

\* C21: cache.get(fp) immediately after cache.set(fp, v, ttl) returns v, with
\* either cache and for every kind of value.
C21_RoundTrip ==
  (probe.read /\ probe.read_at = probe.at) => probe.got = probe.value

\* two consecutive answered requests are the same request to the same tool,
\* and the first reached the tool and succeeded
SameRequestTwice(i) ==
  /\ served[i + 1].tool = served[i].tool
  /\ served[i + 1].req = served[i].req
  /\ ~served[i].hit /\ served[i].resp.status = "success"

\* C22: once the TTL of a set has elapsed without another set, get returns
\* none, and a request whose cached entry is older than the TTL reaches the
\* underlying tool again.
C22_ExpiryAfterTtl ==
  /\ (probe.read /\ probe.ttl > 0 /\ probe.read_at >= probe.at + probe.ttl)
       => probe.got = NoValue
  /\ \A i \in 1..(Len(served) - 1) :
        (/\ SameRequestTwice(i)
         /\ wrap.cache_ttl > 0 /\ served[i + 1].at >= served[i].at + wrap.cache_ttl)
        => ~served[i + 1].hit

C24_KeyHasToolIdentity ==
  \A i \in 1..Len(served) : served[i].hit => served[i].resp.tool = served[i].tool

\* the step handles the result of a tool call that succeeded
HandlesSuccess ==
  /\ pc \in {"rna_result", "crap_result", "p_result"}
  /\ pc' # pc
  /\ result.status = "success"

\* s is an initial segment of t
IsPrefixOf(s, t) == Len(s) <= Len(t) /\ SubSeq(t, 1, Len(s)) = s

\* C25: within one planning loop the accumulated data only grows: handling a
\* successful tool call appends that call's payloads, in order, after what
\* was there; every other step (failure results, no-op iterations, planning,
\* the response phase) leaves it as it was, so what the response phase is
\* given is the untruncated concatenation in call order
C25_DataOnlyGrows ==
  [][ /\ IsPrefixOf(accumulated_data, accumulated_data')
      /\ HandlesSuccess => accumulated_data' = accumulated_data \o result.seqs
      /\ ~HandlesSuccess => accumulated_data' = accumulated_data ]_vars

\* two successful calls with payloads were made and the response phase holds
\* both payloads in call order
C25_Witness ==
  /\ pc \in {"streaming", "p_streaming"}
  /\ Len(tool_log) = 2
  /\ accumulated_data = Rows(1, 1) \o Rows(2, 1)

\* [self.data_summary] if self.data_summary else []: the payloads the planning
\* call of chatbot.py is told about are those of the summary, which every
\* successful call overwrites
PlanningData(summary) == summary.items

\* processor.py passes accumulated_data itself to get_next_step
P_PlanningData(acc) == acc

\* what the planning call made in this state receives
PlanInput ==
  IF impl = "chatbot" THEN PlanningData(data_summary)
                      ELSE P_PlanningData(accumulated_data)

\* C26: each planning call receives the data of every successful tool call
\* made so far in the loop, not only that of the most recent one
C26_PlanningSeesAll ==
  [][ plan_calls' # plan_calls => PlanInput = accumulated_data ]_vars

\* the response phase has started: a start_response event was yielded
ResponseStarted == \E i \in 1..Len(events) : events[i].type = "start_response"

\* types of the events that report tool activity
ToolEventTypes == {"tool_start", "tool_progress", "tool_result", "sequence_data"}

\* C27: once the response phase has started, no further planning call and no
\* further tool invocation is made, and no tool_start, tool_progress,
\* tool_result or sequence_data event is emitted
C27_NoToolsAfterResponse ==
  [][ ResponseStarted =>
        /\ plan_calls' = plan_calls
        /\ tool_log' = tool_log
        /\ \A i \in (Len(events) + 1)..Len(events') :
              events'[i].type \notin ToolEventTypes ]_vars

\* a response that followed a tool call has been streamed to its end
C27_Witness ==
  /\ ResponseStarted
  /\ tool_log # <<>>
  /\ pc \in {"returned", "done"}
  /\ fatal = "none"
  /\ \E i \in 1..Len(events) : events[i].type = "token"

\* the closed set of event types of the outbound wire format
OutboundTypes == {"start", "tool_start", "tool_progress", "tool_result",
                  "sequence_data", "token", "error", "end"}

\* C28: every outbound event emitted while a request is in flight has a type
\* from the closed set and carries a timestamp
C28_ClosedEventTypes ==
  \A i \in 1..Len(events) : events[i].type \in OutboundTypes /\ events[i].ts

\* a search for a species without a table, with nothing else going wrong,
\* has been answered
InvalidSpeciesSearched ==
  /\ call.kind = "search" /\ reply # NoReply
  /\ call.species \notin ValidSpecies
  /\ call.backend = "ok" /\ call.fail_at = 0
  /\ ~(call.limit.given /\ ~call.limit.ok)

\* C30: for a species outside {human, mouse, yeast}, search_rna returns an
\* empty result list and persists no record, in every implementation
C30_InvalidSpeciesEmpty ==
  InvalidSpeciesSearched =>
    reply.status = "success" /\ reply.count = 0 /\ reply.stored = 0

\* the response stream of the session has ended: its consumer was cancelled
\* (the client went away) or closed the generator
SessionEnded == consumer \in {"cancelled", "closed"}

\* C29: when the response stream of a session ends, the registry entry of the
\* session is removed: eventually the registry holds no entry for it
C29_RegistryCleanedUp == SessionEnded ~> (SessionChat \notin registry)

\* rows of the human table: isotype and General_tRNA_Model_Score (in tenths)
TrnaTable ==
  { [gene |-> "t1", isotype |-> "Ala", score |-> 900],
    [gene |-> "t2", isotype |-> "Ala", score |-> 500],
    [gene |-> "t3", isotype |-> "Gly", score |-> 900] }

\* float(value), in tenths
FloatOf(v) ==
  CASE v = "60.5" -> 605 [] v = "50" -> 500 [] v = "5" -> 50
    [] v = "-1" -> -10 [] OTHER -> 0

\* the WHERE clause _handle_search builds from params: a filter is added only
\* for the keys it looks up, 'isotype' and 'min_general_score' among them
McpWhere(params, row) ==
  /\ "isotype" \in DOMAIN params => row.isotype = params["isotype"]
  /\ "min_general_score" \in DOMAIN params =>
        row.score >= FloatOf(params["min_general_score"])

\* the rows the query of _handle_search selects (before LIMIT)
McpSelect(params) == {row \in TrnaTable : McpWhere(params, row)}

\* the directive names key, and the value it gives for it
Names(plan, key) == \E i \in KvIdx(plan) : plan[i].key = key
ValueOf(plan, key) == plan[LastIdx({i \in KvIdx(plan) : plan[i].key = key})].val

\* C31: every record a search returns satisfies the filters of the request
\* that produced it: for each search made for a GET_TRNA directive, the rows
\* selected for its params have the isotype the directive asks for and a
\* general score of at least the minimum it asks for
C31_FiltersHonoured ==
  \A i \in 1..Len(tool_log) :
    tool_log[i].tool = "rna" =>
      \A row \in McpSelect(tool_log[i].params) :
        /\ Names(tool_log[i].plan, "Isotype_from_Anticodon") =>
              row.isotype = ValueOf(tool_log[i].plan, "Isotype_from_Anticodon")
        /\ Names(tool_log[i].plan, "General_tRNA_Model_Score_min") =>
              row.score >= FloatOf(ValueOf(tool_log[i].plan, "General_tRNA_Model_Score_min"))

\* chatbot.py is about to act on a CRAP directive of a non-final iteration
CrapDirective ==
  /\ impl = "chatbot" /\ pc = "planned"
  /\ ~ExitCheck(loop_count, max_loops, plan_response)
  /\ StartsWith(plan_response, "CRAP")

\* C32: a CRAP directive on a non-final iteration leads to exactly one
\* genome-browser invocation followed by the next planning call, whatever
\* happened on earlier iterations: the step that acts on it goes on to the
\* adapter call and never to the fatal error path, the call is logged once,
\* and handling its result leads to the next iteration
C32_CrapAlwaysInvoked ==
  [][ /\ CrapDirective => (fatal' = "none" /\ pc' = "call_crap")
      /\ (impl = "chatbot" /\ pc = "call_crap") =>
            /\ Len(tool_log') = Len(tool_log) + 1
            /\ tool_log'[Len(tool_log')].tool = "crap"
      /\ (impl = "chatbot" /\ pc = "crap_result") =>
            (fatal' = "none" /\ pc' = "incr" /\ tool_log' = tool_log) ]_vars

\* sessions a and b are both suspended in a call of the same wrapped tool
\* with the same method and parameters
SameCallInFlight(a, b) ==
  /\ a # b
  /\ sessions[a].pc = "awaiting" /\ sessions[b].pc = "awaiting"
  /\ sessions[a].tool = sessions[b].tool
  /\ sessions[a].req = sessions[b].req

\* C33: when two sessions concurrently invoke the same cached tool with the
\* same method and parameters and nothing is cached for that fingerprint,
\* the backend is called once: both wait for the same underlying invocation
C33_SingleFlight ==
  \A a, b \in Sessions :
    SameCallInFlight(a, b) => sessions[a].serial = sessions[b].serial

\* success_rate of ToolMetrics, as the pair numerator / denominator, lies
\* between 0 and 1
SuccessRateInRange(m) ==
  IF m.total_calls = 0 THEN TRUE
  ELSE 0 <= m.successful_calls /\ m.successful_calls <= m.total_calls

\* C34: after any interleaving of monitored invocations from concurrent
\* sessions, including invocations that raise or are cancelled, the metrics
\* of each tool satisfy total_calls = successful_calls + failed_calls,
\* total_calls is the number of underlying invocations that completed, and
\* success_rate lies between 0 and 1
C34_MetricsConsistent ==
  wrap.monitoring =>
    \A t \in ToolClasses :
      /\ metrics[t].total_calls = metrics[t].successful_calls + metrics[t].failed_calls
      /\ metrics[t].total_calls = finished[t]
      /\ SuccessRateInRange(metrics[t])

\* both sessions overlapped on one tool: one invocation returned, one raised
\* and one was cancelled
C34_Witness ==
  /\ wrap.monitoring
  /\ \E t \in ToolClasses :
       /\ invoked[t] = 2 /\ finished[t] = 1
       /\ \A s \in Sessions : sessions[s].pc = "idle" /\ sessions[s].tool = t
       /\ \E s \in Sessions : sessions[s].got.code = "MONITORED_TOOL_ERROR"
       /\ \E s \in Sessions : sessions[s].got = NoValue

\* the generator of the session yielded a complete response: the start
\* marker and, after it, the end marker of the response
CompleteResponse ==
  \E i, j \in 1..Len(events) :
    /\ i < j
    /\ events[i].type = "start_response"
    /\ events[j].type \in {"end", "end_response"} /\ events[j].src # "view"

\* an error event was emitted
ErrorEmitted == \E i \in 1..Len(events) : events[i].type = "error"

\* C35: for every configured maximum number of planning iterations (0 and 1
\* included) and every sequence of planning outputs and tool results, the
\* session makes at most that many planning calls and ends in a state where
\* a complete response was streamed or an error event was emitted
C35_ResponseOrError ==
  /\ plan_calls <= max_loops
  /\ pc = "done" => (CompleteResponse \/ ErrorEmitted)

\* positions of the events of type end in the stream
EndPositions == {i \in 1..Len(events) : events[i].type = "end"}

\* the request that event_stream serves has completed without any failure
CompletedSuccessfully ==
  impl = "chatbot" /\ pc = "done" /\ fatal = "none" /\ ~ErrorEmitted

\* C36: the outbound stream of a request that completes successfully holds
\* exactly one event of type end, and that event is the last of the stream
C36_OneEndEvent ==
  CompletedSuccessfully =>
    /\ Cardinality(EndPositions) = 1
    /\ events[Len(events)].type = "end"

\* C37: a search_rna call of RNADatabaseMCP that returns a failure result has
\* persisted no record: when processing or storing the k-th row fails, the
\* storage holds none of the rows of that call
C37_FailurePersistsNothing ==
  (call.kind = "search" /\ call.adapter = "mcp" /\ reply.status = "error") =>
    reply.stored = 0

\* C38: the chat endpoints accept a bearer token only if it is an unexpired
\* access-type token of an existing active user: a refresh token, or a token
\* of a deactivated user, never authorises a chat request
C38_ChatNeedsAccessToken ==
  (auth_log.endpoint = "chat" /\ auth_log.ok) =>
    /\ ~auth_log.token.expired
    /\ auth_log.token.type = "access"
    /\ auth_log.row.active

\* the unexpired refresh tokens verify_token accepts in this state
ValidRefreshTokens ==
  {tok \in TokensUpTo(issued) :
     ~tok.expired /\ tok.type = "refresh" /\ VerifyToken(tok, "refresh", user_row)}

\* C39: at any time at most one refresh token of the user is valid: a
\* refresh token that verify_token / refresh_access_token accepts is the one
\* of the latest create_tokens call, and none is accepted once
\* revoke_refresh_token has run and no new tokens were issued
C39_LatestRefreshOnly ==
  [][ /\ Cardinality(ValidRefreshTokens) <= 1
      /\ (auth_log' # auth_log /\ auth_log'.endpoint = "refresh" /\ auth_log'.ok) =>
            (auth_log'.token.jti = issued /\ ~revoked) ]_vars

====
